---- MODULE Spec2Model ----
(***************************************************************************)
(* A model of turborand's core: the bounded-range integer sampler          *)
(* (src/src/methods.rs, src/src/traits.rs), the entropy buffer             *)
(* (src/src/internal/buffer.rs, src/src/buffer.rs), the WyRand and ChaCha8 *)
(* sources (src/src/source/), and the sampling layer built on them.        *)
(*                                                                         *)
(* TLC's integers are 32-bit, so a value wider than 31 bits is kept as its *)
(* little-endian bytes (what to_le_bytes / from_le_bytes exchange), or as  *)
(* a pair of 16-bit halves for a ChaCha word.  All arithmetic on them is   *)
(* exact.                                                                  *)
(*                                                                         *)
(* Every subsystem has its own variable and its own specification; a       *)
(* specification leaves the other subsystems' variables at "unused".       *)
(***************************************************************************)
EXTENDS Integers, Sequences, FiniteSets, TLC

VARIABLES
    rs,     \* one call of sample_W(bounds): trait_range_int, u8 / i8
    eb,     \* the two EntropyBuffer versions, fed by one block source
    sd,     \* two seeded generators driven in lockstep, and their clones
    sh,     \* one call of shuffle / partial_shuffle
    ch,     \* one call of char(bounds)
    ws,     \* one call of weighted_sample / weighted_sample_mut
    re,     \* a generator that is seeded, used and reseeded, and a fresh one
    un,     \* every raw value of a width taken through one range in turn
    st,     \* one generator taken through generate, fill and clone
    iu,     \* one IncreasingUniformIter taken through its swap indices
    mh,     \* multiply_high_u128 on one pair of words after another
    at,     \* threads that share one AtomicRng
    bo      \* the references to one ChaCha8's cache, through fill

vars == <<rs, eb, sd, sh, ch, ws, re, un, st, iu, mh, at, bo>>

Unused == [pc |-> "unused"]

----------------------------------------------------------------------------
(* Integer helpers                                                          *)

RECURSIVE Pow2(_)
Pow2(n) == IF n = 0 THEN 1 ELSE 2 * Pow2(n - 1)

Min(a, b) == IF a <= b THEN a ELSE b
Max(a, b) == IF a >= b THEN a ELSE b

\* The value of little-endian bytes (from_le_bytes); the caller keeps it
\* below 2^31.
RECURSIVE LeValue(_)
LeValue(bytes) ==
    IF bytes = <<>> THEN 0 ELSE Head(bytes) + 256 * LeValue(Tail(bytes))

\* 2^k mod m, by doubling, never leaving [0, 2m).
RECURSIVE Pow2Mod(_, _)
Pow2Mod(k, m) == IF k = 0 THEN 1 % m ELSE (2 * Pow2Mod(k - 1, m)) % m

----------------------------------------------------------------------------
(* Bounded-range integer sampling: trait_range_int!($value, $unsigned,      *)
(* $bigger, $source), instantiated as u8 and i8.                            *)

BITS == 8

\* How far from MIN, from MAX and from the sign change the enumerated bound
\* values lie.
EdgeSpan == 1

\* How many raw values one call may draw before the model stops following it.
MaxDraws == 3

TypeMin(signed) == IF signed THEN 0 - Pow2(BITS - 1) ELSE 0
TypeMax(signed) == IF signed THEN Pow2(BITS - 1) - 1 ELSE Pow2(BITS) - 1

\* `x as $unsigned` and `x as $value`: the same bits, read in the other type.
AsUnsigned(x) == x % Pow2(BITS)
AsValue(x, signed) ==
    IF signed /\ (x % Pow2(BITS)) >= Pow2(BITS - 1)
    THEN (x % Pow2(BITS)) - Pow2(BITS)
    ELSE x % Pow2(BITS)

saturating_add(x, d, signed) == Min(x + d, TypeMax(signed))
saturating_sub(x, d, signed) == Max(x - d, TypeMin(signed))

\* A std::ops::Bound.
Included(v) == [kind |-> "Included", val |-> v]
Excluded(v) == [kind |-> "Excluded", val |-> v]
Unbounded == [kind |-> "Unbounded", val |-> 0]

\* methods.rs 24-28
ResolveLower(b, signed) ==
    CASE b.kind = "Included" -> b.val
      [] b.kind = "Excluded" -> saturating_add(b.val, 1, signed)
      [] OTHER -> TypeMin(signed)

\* An exclusive end taken as if it were inclusive.
ResolveUpperInclusive(b, signed) ==
    CASE b.kind = "Unbounded" -> TypeMax(signed)
      [] OTHER -> b.val

\* methods.rs 29-33
ResolveUpper(b, signed) ==
    CASE b.kind = "Included" -> b.val
      [] b.kind = "Excluded" -> saturating_sub(b.val, 1, signed)
      [] OTHER -> TypeMax(signed)

\* A range size without the wrapping_add(1).
RangeSizeLess(lower, upper) == AsUnsigned(upper - lower)

\* methods.rs 40: upper.wrapping_sub(lower).wrapping_add(1) as $unsigned
RangeSize(lower, upper) == AsUnsigned(AsUnsigned(upper - lower) + 1)

\* methods.rs 42-43, 52: the double-width product of a raw value of `n` bytes
\* and `range`, as its low half (bytes) and its high half (a number below
\* `range`).  Byte by byte, so that no intermediate leaves 31 bits.
RECURSIVE MulWide(_, _, _)
MulWide(raw, range, carry) ==
    IF raw = <<>> THEN [low |-> <<>>, high |-> carry]
    ELSE LET t == Head(raw) * range + carry
             rest == MulWide(Tail(raw), range, t \div 256)
         IN  [low |-> <<t % 256>> \o rest.low, high |-> rest.high]

\* low < x, for a low half of any width and x < 2^23.
LowLess(low, x) ==
    /\ \A i \in 4..Len(low) : low[i] = 0
    /\ LeValue(SubSeq(low, 1, Min(3, Len(low)))) < x

\* A threshold under which nothing is rejected.
ThresholdNone(range, bits) == 0

\* methods.rs 45: range.wrapping_neg() % range = (2^W - range) mod range
Threshold(range, bits) == Pow2Mod(bits, range)

\* methods.rs 53: lower.wrapping_add(value)
WrappingAddValue(lower, value, signed) == AsValue(lower + value, signed)

\* One pass of the body of the rejection loop on one raw value (methods.rs
\* 41-50): `first` is the draw of line 41, whose rejection also needs
\* low < range (line 44).
Rejects(raw, range, bits, first) ==
    LET low == MulWide(raw, range, 0).low
    IN  /\ first => LowLess(low, range)
        /\ LowLess(low, Threshold(range, bits))

----------------------------------------------------------------------------
(* One call sample_W(bounds), a draw at a time.                             *)

ValueOfBits(p, signed) == AsValue(p, signed)

\* The enumerated bound values: those within EdgeSpan of MIN, of MAX and of
\* the middle of the type, for both signednesses.
BoundVals(signed) ==
    { ValueOfBits(p, signed) : p \in
        { q \in 0..(Pow2(BITS) - 1) :
            \/ q % Pow2(BITS - 1) <= EdgeSpan
            \/ q % Pow2(BITS - 1) >= Pow2(BITS - 1) - EdgeSpan } }

Bounds(signed) ==
    {Unbounded} \cup { Included(v) : v \in BoundVals(signed) }
                \cup { Excluded(v) : v \in BoundVals(signed) }

RawBytes == 0..255

RsIdle == [pc |-> "idle"]

\* methods.rs 21-35: the bounds are resolved and asserted.
RangeCall(signed, sb, ub) ==
    /\ rs.pc = "idle"
    /\ LET lower == ResolveLower(sb, signed)
           upper == ResolveUpper(ub, signed)
       IN  rs' = [pc |-> IF lower <= upper THEN "sampling" ELSE "panicked",
                  signed |-> signed, start |-> sb, end |-> ub,
                  lower |-> lower, upper |-> upper, draws |-> 0,
                  raw |-> <<>>]
    /\ UNCHANGED <<eb, sd, sh, ch, ws, re, un, st, iu, mh, at, bo>>

\* methods.rs 37-55: one raw value from $source, taken or rejected.
RangeDraw(raw) ==
    /\ rs.pc = "sampling"
    /\ rs.draws < MaxDraws
    /\ LET signed == rs.signed
           range == RangeSize(rs.lower, rs.upper)
       IN  IF rs.lower = TypeMin(signed) /\ rs.upper = TypeMax(signed)
           THEN rs' = [rs EXCEPT !.pc = "returned", !.draws = @ + 1,
                                 !.raw = raw] @@
                      [result |-> AsValue(LeValue(raw), signed)]
           ELSE IF range = 0
           THEN rs' = [rs EXCEPT !.pc = "panicked"]
           ELSE IF Rejects(raw, range, BITS, rs.draws = 0)
           THEN rs' = [rs EXCEPT !.draws = @ + 1]
           ELSE rs' = [rs EXCEPT !.pc = "returned", !.draws = @ + 1,
                                 !.raw = raw] @@
                      [result |-> WrappingAddValue(rs.lower,
                                      MulWide(raw, range, 0).high, signed)]
    /\ UNCHANGED <<eb, sd, sh, ch, ws, re, un, st, iu, mh, at, bo>>

\* The caller makes its next call.
RangeDone ==
    /\ rs.pc \in {"returned", "panicked"}
    /\ rs' = RsIdle
    /\ UNCHANGED <<eb, sd, sh, ch, ws, re, un, st, iu, mh, at, bo>>

InitRange ==
    /\ rs = RsIdle
    /\ eb = Unused /\ sd = Unused /\ sh = Unused /\ ch = Unused /\ ws = Unused
    /\ re = Unused /\ un = Unused
    /\ st = Unused /\ iu = Unused /\ mh = Unused /\ at = Unused /\ bo = Unused

NextRange ==
    \/ \E signed \in BOOLEAN : \E sb \in Bounds(signed), ub \in Bounds(signed) :
           RangeCall(signed, sb, ub)
    \/ \E b \in RawBytes : RangeDraw(<<b>>)
    \/ RangeDone

SpecRange == InitRange /\ [][NextRange]_vars

(* The integers a pair of bounds denotes (RangeBounds::contains).           *)
Contains(v, sb, ub) ==
    /\ sb.kind = "Included" => sb.val <= v
    /\ sb.kind = "Excluded" => sb.val < v
    /\ ub.kind = "Included" => v <= ub.val
    /\ ub.kind = "Excluded" => v < ub.val

DenotesEmpty(sb, ub, signed) ==
    \A v \in TypeMin(signed)..TypeMax(signed) : ~Contains(v, sb, ub)

RangeCalled == rs.pc \in {"sampling", "returned", "panicked"}

\* C1: range containment.  Whenever the resolved inclusive pair of a call
\* satisfies lower <= upper the call does not panic, and a value it returns
\* lies in [lower, upper]; when the bounds denote at least one integer the
\* returned value is one of the integers they denote.
RangeContainment ==
    /\ (RangeCalled /\ rs.lower <= rs.upper) => rs.pc # "panicked"
    /\ rs.pc = "returned" =>
          /\ rs.lower <= rs.result /\ rs.result <= rs.upper
          /\ ~DenotesEmpty(rs.start, rs.end, rs.signed) =>
                 Contains(rs.result, rs.start, rs.end)

\* A signed call with an exclusive end whose first raw value was rejected
\* and whose second gave the largest value of the range.
RangeContainmentWitness ==
    /\ rs.pc = "returned" /\ rs.signed /\ rs.draws = 2
    /\ rs.start = Included(TypeMin(TRUE) + 1) /\ rs.end = Excluded(0)
    /\ rs.result = 0 - 1

\* C2: a call whose bounds contain no integer of the type panics, and
\* returns no value.
EmptyRangePanics ==
    (rs.pc \in {"returned", "panicked"}
        /\ DenotesEmpty(rs.start, rs.end, rs.signed)) => rs.pc = "panicked"

----------------------------------------------------------------------------
(* EntropyBuffer<SIZE>, in its two versions: internal/buffer.rs keeps SIZE  *)
(* u64 words and starts with cursor = total_bytes; buffer.rs keeps an       *)
(* Option<[u8; SIZE]> and starts with None and cursor 0.  Both are driven   *)
(* here by the same requests, each with a source of its own that returns    *)
(* the same blocks.                                                         *)

\* SIZE of internal/buffer.rs, in u64 words.
BufWords == 1

\* The longest request, the most bytes requested in all, and the most
\* requests made.
MaxRequest == 10
MaxTotal == 20
MaxRequests == 3

total_bytes == BufWords * 8

\* The block the source returns on its k-th call (k from 0): bytes that name
\* their own place in the source's output.
SourceBlock(k) == [i \in 1..total_bytes |-> (k * total_bytes + i) % 256]

RECURSIVE SourceStream(_)
SourceStream(calls) ==
    IF calls = 0 THEN <<>>
    ELSE SourceStream(calls - 1) \o SourceBlock(calls - 1)

\* internal/buffer.rs 25-30
EbNew == [buffer |-> [i \in 1..total_bytes |-> 0], cursor |-> total_bytes]

\* An emptiness test that is already true with one byte left.
is_empty_early(b) == total_bytes - 1 <= b.cursor

\* internal/buffer.rs 99-101
is_empty(b) == total_bytes = b.cursor

\* internal/buffer.rs 108-110
remaining_buffer(b) == total_bytes - b.cursor

\* internal/buffer.rs 118-121
update_entropy(b, block) == [buffer |-> block, cursor |-> 0]

\* A fill that restarts the cursor at the copied length.
fill_cursor_restarts(b, n) ==
    LET length == Min(n, remaining_buffer(b))
    IN  [buf |-> [b EXCEPT !.cursor = length],
         out |-> SubSeq(b.buffer, b.cursor + 1, b.cursor + length),
         filled |-> length]

\* internal/buffer.rs 128-139: the bytes copied into output[..length], the
\* buffer after it and the length.
fill(b, n) ==
    LET length == Min(n, remaining_buffer(b))
        to == b.cursor + length
    IN  [buf |-> [b EXCEPT !.cursor = to],
         out |-> SubSeq(b.buffer, b.cursor + 1, to),
         filled |-> length]

\* An emptying that rewinds the cursor to the start of the zeroed block.
empty_buffer_rewinds(b) == [buffer |-> [i \in 1..total_bytes |-> 0], cursor |-> 0]

\* internal/buffer.rs 144-147
empty_buffer(b) == EbNew

\* internal/buffer.rs 154-172, with SourceBlock as the source: the buffer,
\* the bytes written and the number of source calls after the loop.
RECURSIVE fill_bytes_with_source(_, _, _)
fill_bytes_with_source(b, remaining, calls) ==
    IF remaining = 0 THEN [buf |-> b, out |-> <<>>, calls |-> calls]
    ELSE LET refill == is_empty(b)
             b1 == IF refill THEN update_entropy(b, SourceBlock(calls)) ELSE b
             c1 == IF refill THEN calls + 1 ELSE calls
             f == fill(b1, remaining)
             rest == fill_bytes_with_source(f.buf, remaining - f.filled, c1)
         IN  [buf |-> rest.buf, out |-> f.out \o rest.out, calls |-> rest.calls]

\* An Option: None is the empty sequence, Some(x) the sequence of x alone.
None == <<>>
Some(x) == <<x>>
IsSome(o) == o # <<>>
Unwrap(o) == o[1]

\* buffer.rs 10-15
OldNew == [buffer |-> None, cursor |-> 0]

\* buffer.rs 18-24
old_is_empty(b) ==
    IF IsSome(b.buffer) THEN Len(Unwrap(b.buffer)) = b.cursor ELSE TRUE

\* buffer.rs 27-33
old_remaining_buffer(b) ==
    IF IsSome(b.buffer) THEN Len(Unwrap(b.buffer)) - b.cursor ELSE 0

\* buffer.rs 36-39
reset_buffer(b, block) == [buffer |-> Some(block), cursor |-> 0]

\* buffer.rs 42-52: None when there is no buffer.
old_fill(b, n) ==
    IF ~IsSome(b.buffer) THEN None
    ELSE LET length == Min(n, old_remaining_buffer(b))
         IN  Some([buf |-> [b EXCEPT !.cursor = @ + length],
                   out |-> SubSeq(Unwrap(b.buffer), b.cursor + 1,
                                  b.cursor + length),
                   filled |-> length])

\* buffer.rs 55-77; `panicked` is the unwrap of a None at line 71.
RECURSIVE old_fill_bytes_with_source(_, _, _)
old_fill_bytes_with_source(b, remaining, calls) ==
    IF remaining = 0
    THEN [panicked |-> FALSE, buf |-> b, out |-> <<>>, calls |-> calls]
    ELSE LET refill == old_is_empty(b)
             b1 == IF refill THEN reset_buffer(b, SourceBlock(calls)) ELSE b
             c1 == IF refill THEN calls + 1 ELSE calls
             f == old_fill(b1, remaining)
         IN  IF ~IsSome(f)
             THEN [panicked |-> TRUE, buf |-> b1, out |-> <<>>, calls |-> c1]
             ELSE LET rest == old_fill_bytes_with_source(Unwrap(f).buf,
                                  remaining - Unwrap(f).filled, c1)
                  IN  [rest EXCEPT !.out = Unwrap(f).out \o @]

\* Both buffers right after new(), nothing requested yet.
EbInit ==
    [pc |-> "ready", new |-> EbNew, old |-> OldNew,
     newCalls |-> 0, oldCalls |-> 0,
     requests |-> <<>>, newWritten |-> <<>>, oldWritten |-> <<>>]

\* One request of n bytes, made of both buffers.
EbRequest(n) ==
    /\ eb.pc = "ready"
    /\ Len(eb.requests) < MaxRequests
    /\ Len(eb.newWritten) + n <= MaxTotal
    /\ LET r == fill_bytes_with_source(eb.new, n, eb.newCalls)
           o == old_fill_bytes_with_source(eb.old, n, eb.oldCalls)
       IN  IF o.panicked
           THEN eb' = [eb EXCEPT !.pc = "panicked"]
           ELSE eb' = [eb EXCEPT !.new = r.buf, !.newCalls = r.calls,
                          !.old = o.buf, !.oldCalls = o.calls,
                          !.requests = Append(@, n),
                          !.newWritten = @ \o r.out,
                          !.oldWritten = @ \o o.out]
    /\ UNCHANGED <<rs, sd, sh, ch, ws, re, un, st, iu, mh, at, bo>>

InitBuffer ==
    /\ eb = EbInit
    /\ rs = Unused /\ sd = Unused /\ sh = Unused /\ ch = Unused /\ ws = Unused
    /\ re = Unused /\ un = Unused
    /\ st = Unused /\ iu = Unused /\ mh = Unused /\ at = Unused /\ bo = Unused

NextBuffer == \E n \in 0..MaxRequest : EbRequest(n)

SpecBuffer == InitBuffer /\ [][NextBuffer]_vars

\* C3: buffer exhaustion round trip.  The bytes written by the requests so
\* far, in request order, are the first bytes of the blocks the source
\* returned in call order, as many as were requested, for either version of
\* the buffer; no more blocks were fetched than those bytes need.
BufferRoundTrip ==
    eb.pc # "unused" =>
        /\ eb.pc = "ready"
        /\ LET total == Len(eb.newWritten)
           IN  /\ Len(eb.oldWritten) = total
               /\ eb.oldCalls = eb.newCalls
               /\ total <= eb.newCalls * total_bytes
               /\ eb.newCalls * total_bytes < total + total_bytes
               /\ eb.newWritten = SubSeq(SourceStream(eb.newCalls), 1, total)
               /\ eb.oldWritten = SubSeq(SourceStream(eb.oldCalls), 1, total)

\* A request smaller than the block, then one that crosses two refills,
\* then a single byte.
BufferRoundTripWitness ==
    /\ eb.pc = "ready"
    /\ Len(eb.requests) = 3
    /\ eb.requests[1] < total_bytes
    /\ eb.requests[2] > total_bytes
    /\ eb.requests[3] = 1
    /\ eb.newCalls >= 3

----------------------------------------------------------------------------
(* Words wider than TLC's integers.  A u64 is its 8 little-endian bytes; a  *)
(* u32 ChaCha word is the pair <<high 16 bits, low 16 bits>>.               *)

RECURSIVE BitXor(_, _, _)
BitXor(a, b, n) ==
    IF n = 0 THEN 0
    ELSE ((a + b) % 2) + 2 * BitXor(a \div 2, b \div 2, n - 1)

\* a ^ b on bytes, tabulated once.
XorByte == [a \in 0..255 |-> [b \in 0..255 |-> BitXor(a, b, 8)]]

Xor16(a, b) ==
    (256 * XorByte[a \div 256][b \div 256]) + XorByte[a % 256][b % 256]

\* u32: wrapping_add, ^, rotate_left.
W32(hi, lo) == <<hi, lo>>
Zero32 == W32(0, 0)
Add32(x, y) ==
    LET lo == x[2] + y[2]
    IN  W32((x[1] + y[1] + (lo \div 65536)) % 65536, lo % 65536)
Xor32(x, y) == W32(Xor16(x[1], y[1]), Xor16(x[2], y[2]))
Rotl32(x, k) ==
    LET y == IF k >= 16 THEN W32(x[2], x[1]) ELSE x
        j == k % 16
    IN  W32(((y[1] * Pow2(j)) % 65536) + (y[2] \div Pow2(16 - j)),
            ((y[2] * Pow2(j)) % 65536) + (y[1] \div Pow2(16 - j)))

\* u32::to_ne_bytes on a little-endian target, and its inverse.
Bytes32(x) ==
    <<x[2] % 256, x[2] \div 256, x[1] % 256, x[1] \div 256>>

\* chacha.rs 129-136
pack_into_u32(input) ==
    W32(input[3] + (256 * input[4]), input[1] + (256 * input[2]))

----------------------------------------------------------------------------
(* ChaCha8: src/src/source/chacha.rs (and chacha/utils.rs).                  *)

\* [u32; 16] as a tuple of its words.
Words16(f) ==
    <<f[1], f[2], f[3], f[4], f[5], f[6], f[7], f[8],
      f[9], f[10], f[11], f[12], f[13], f[14], f[15], f[16]>>

\* chacha.rs 5: b"expand 32-byte k"
INITIAL_STATE ==
    <<101, 120, 112, 97, 110, 100, 32, 51, 50, 45, 98, 121, 116, 101, 32, 107>>

\* chacha.rs 139-158: the words are indexed from 1 here, from 0 in the code.
init_state(seed) ==
    Words16([i \in 1..16 |->
        IF i <= 4 THEN pack_into_u32(SubSeq(INITIAL_STATE, 4 * i - 3, 4 * i))
        ELSE IF i <= 12 THEN pack_into_u32(SubSeq(seed, 4 * i - 19, 4 * i - 16))
        ELSE IF i <= 14 THEN Zero32
        ELSE pack_into_u32(SubSeq(seed, 4 * i - 27, 4 * i - 24))])

\* chacha.rs 161-167
add_xor_rotate(input, A, B, C, LEFT) ==
    LET a == Add32(input[A + 1], input[B + 1])
    IN  [input EXCEPT ![A + 1] = a,
                      ![C + 1] = Rotl32(Xor32(input[C + 1], a), LEFT)]

\* chacha.rs 170-177
quarter_round(input, A, B, C, D) ==
    add_xor_rotate(
        add_xor_rotate(
            add_xor_rotate(
                add_xor_rotate(input, A, B, D, 16),
                C, D, B, 12),
            A, B, D, 8),
        C, D, B, 7)

\* chacha.rs 186-195: the quarter rounds of one pass of the loop.
QuarterRounds ==
    << <<0, 4, 8, 12>>, <<1, 5, 9, 13>>, <<2, 6, 10, 14>>, <<3, 7, 11, 15>>,
       <<0, 5, 10, 15>>, <<1, 6, 11, 12>>, <<2, 7, 8, 13>>, <<3, 4, 9, 14>> >>

\* The n quarter rounds still to run.  The length test has TLC evaluate
\* one quarter round before it starts the next.
RECURSIVE Rounds(_, _)
RoundsAfter(next, n) == IF Len(next) = 16 THEN Rounds(next, n) ELSE next

QuarterRoundAt(state, q) == quarter_round(state, q[1], q[2], q[3], q[4])

Rounds(state, n) ==
    IF n = 0 THEN state
    ELSE RoundsAfter(
             QuarterRoundAt(state, QuarterRounds[((8 - (n % 8)) % 8) + 1]),
             n - 1)

\* chacha.rs 179-204
calculate_block(DOUBLE_ROUNDS, state) ==
    LET new_state == Rounds(state, 8 * DOUBLE_ROUNDS)
    IN  Words16([i \in 1..16 |-> Add32(new_state[i], state[i])])

\* generate's DOUBLE_ROUNDS, chacha.rs 40.
DoubleRounds == 4

\* chacha.rs 42-48: the block's words as bytes.
RECURSIVE BlockBytes(_, _)
BlockBytes(words, i) ==
    IF i > 16 THEN <<>> ELSE Bytes32(words[i]) \o BlockBytes(words, i + 1)

\* chacha.rs 117-126 (chacha/utils.rs 22-31): the counter is words 12 and 13
\* of the code, 13 and 14 here; None when checked_add overflows.
Max32 == W32(65535, 65535)
One32 == W32(0, 1)

\* A counter that is exhausted at once.
increment_counter_exhausted(state) == None

\* A counter that wraps to 0.
increment_counter_wrapping(state) ==
    Some([state EXCEPT ![13] = Add32(@, One32),
                       ![14] = IF state[13] = Max32 THEN Add32(@, One32)
                               ELSE @])

increment_counter(state) ==
    IF state[13] = Max32 /\ state[14] = Max32 THEN None
    ELSE Some([state EXCEPT ![13] = Add32(@, One32),
                            ![14] = IF state[13] = Max32 THEN Add32(@, One32)
                                    ELSE @])

\* chacha.rs 15-20.  The cache is buffer.rs's EntropyBuffer<64>.
chacha_with_seed(seed) ==
    [kind |-> "chacha", state |-> init_state(seed), cache |-> OldNew]

\* A reseed that leaves the cached block in place.
chacha_reseed_keeps_cache(g, seed) == [g EXCEPT !.state = init_state(seed)]

\* chacha.rs 23-34.  buffer.rs has no empty_buffer; the one of
\* internal/buffer.rs (144-147) leaves the buffer as new() makes it.
chacha_reseed(g, seed) ==
    [g EXCEPT !.state = init_state(seed), !.cache = OldNew]

\* The words 12 and 13 of a block are all ones: the test of chacha.rs 119-121
\* read off the block.
CounterExhausted(block) == block[13] = Max32 /\ block[14] = Max32

\* chacha.rs 42-60: generate from the point where calculate_block has
\* returned new_state.  entropy is what generate_entropy::<40>() returns if
\* it is called.
generate_with_block(g, new_state, entropy) ==
    LET updated == increment_counter(new_state)
    IN  [g |-> IF IsSome(updated) THEN [g EXCEPT !.state = Unwrap(updated)]
               ELSE chacha_reseed(g, entropy),
         output |-> BlockBytes(new_state, 1),
         exhausted |-> CounterExhausted(new_state)]

\* chacha.rs 37-61
chacha_generate(g, entropy) ==
    generate_with_block(g, calculate_block(DoubleRounds, g.state), entropy)

\* chacha.rs 73-80 with the loop of buffer.rs 55-77.  pending is Some(block)
\* when the first generate of the loop has its block already.
RECURSIVE chacha_fill(_, _, _, _)

\* buffer.rs 65: reset_buffer(source()), r being what generate returned.
chacha_refill(r) ==
    [g |-> [r.g EXCEPT !.cache = reset_buffer(@, r.output)],
     exhausted |-> r.exhausted]

\* buffer.rs 73-75 and the next turn of the loop: filled is what fill
\* returned, x the generator and whether generate reseeded it.
chacha_filled(x, filled, remaining, entropy, rest) ==
    [g |-> rest.g, out |-> filled.out \o rest.out,
     exhausted |-> x.exhausted \/ rest.exhausted]

chacha_turn(x, filled, remaining, entropy) ==
    chacha_filled(x, filled, remaining, entropy,
        chacha_fill([x.g EXCEPT !.cache = filled.buf],
                    remaining - filled.filled, None, entropy))

\* buffer.rs 71
chacha_copy(x, remaining, entropy) ==
    chacha_turn(x, Unwrap(old_fill(x.g.cache, remaining)), remaining, entropy)

chacha_fill(g, remaining, pending, entropy) ==
    IF remaining = 0 THEN [g |-> g, out |-> <<>>, exhausted |-> FALSE]
    ELSE IF old_is_empty(g.cache)
    THEN chacha_copy(
             chacha_refill(
                 IF IsSome(pending)
                 THEN generate_with_block(g, Unwrap(pending), entropy)
                 ELSE chacha_generate(g, entropy)),
             remaining, entropy)
    ELSE chacha_copy([g |-> g, exhausted |-> FALSE], remaining, entropy)

----------------------------------------------------------------------------
(* WyRand: src/src/source/wyrand.rs over the state of internal/state.rs,    *)
(* and Rng's seeding (src/src/rng.rs).  A u64 is its 8 little-endian bytes.  *)

\* u64::wrapping_add
RECURSIVE AddBytes(_, _, _)
AddBytes(x, y, carry) ==
    IF x = <<>> THEN <<>>
    ELSE LET sum == Head(x) + Head(y) + carry
         IN  <<sum % 256>> \o AddBytes(Tail(x), Tail(y), sum \div 256)

wrapping_add(x, y) == AddBytes(x, y, 0)

\* u64 ^ u64
RECURSIVE XorBytes(_, _)
XorBytes(x, y) ==
    IF x = <<>> THEN <<>>
    ELSE <<XorByte[Head(x)][Head(y)]>> \o XorBytes(Tail(x), Tail(y))

\* u128::from(x).wrapping_mul(u128::from(y)): the 16 bytes of the product.
\* Column is the sum of the byte products of weight 256^k.
RECURSIVE Column(_, _, _, _)
Column(x, y, k, i) ==
    IF i > 7 THEN 0
    ELSE (IF k - i >= 0 /\ k - i <= 7 THEN x[i + 1] * y[(k - i) + 1] ELSE 0)
         + Column(x, y, k, i + 1)

RECURSIVE MulBytes(_, _, _, _)
MulBytes(x, y, k, carry) ==
    IF k > 15 THEN <<>>
    ELSE LET sum == Column(x, y, k, 0) + carry
         IN  <<sum % 256>> \o MulBytes(x, y, k + 1, sum \div 256)

\* wyrand.rs 41: 0xa076_1d64_78bd_642f; wyrand.rs 42: 0xe703_7ed1_a0b4_28db
WyIncrement == <<47, 100, 189, 120, 100, 29, 118, 160>>
WyMix == <<219, 40, 180, 160, 209, 126, 3, 231>>

\* An output that is the low half of t alone.
wyrand_output_low(t) == SubSeq(t, 1, 8)

\* wyrand.rs 42-44: t and ret, from the updated state.
wyrand_output(t) == XorBytes(SubSeq(t, 9, 16), SubSeq(t, 1, 8))

wyrand_mix(updated) ==
    [state |-> updated,
     output |-> wyrand_output(
                    MulBytes(updated, XorBytes(updated, WyMix), 0, 0))]

\* wyrand.rs 38-45 with State::update (state.rs 32-36)
wyrand_generate(state) == wyrand_mix(wrapping_add(state, WyIncrement))

\* `usize as f32`: the nearest value with a 24-bit significand, ties to the
\* even one.  F32Quantum is the spacing of such values around n.
RECURSIVE F32Quantum(_, _)
F32Quantum(n, q) ==
    IF n < 16777216 * q THEN q ELSE F32Quantum(n, 2 * q)

F32Round(n, q) ==
    LET below == n - (n % q)
    IN  IF 2 * (n % q) < q THEN below
        ELSE IF 2 * (n % q) > q THEN below + q
        ELSE IF (below \div q) % 2 = 0 THEN below ELSE below + q

as_f32(n) == F32Round(n, F32Quantum(n, 1))

\* wyrand.rs 60: (output.len() as f32 / size_of::<u64>() as f32).ceil() as
\* usize; the division by 8.0 is exact.
fill_chunks(n) == (as_f32(n) + 7) \div 8

\* wyrand.rs 62-68: the loop over repeat_with(generate).take(remaining).
RECURSIVE wyrand_take(_, _, _)
wyrand_filled(input, length, rest) ==
    [state |-> rest.state,
     out |-> SubSeq(input.output, 1, length) \o rest.out,
     calls |-> rest.calls + 1]

wyrand_turn(input, n, remaining) ==
    wyrand_filled(input, Min(n, 8),
                  wyrand_take(input.state, n - Min(n, 8), remaining - 1))

wyrand_take(state, n, remaining) ==
    IF remaining = 0 THEN [state |-> state, out |-> <<>>, calls |-> 0]
    ELSE wyrand_turn(wyrand_generate(state), n, remaining)

\* wyrand.rs 58-69
wyrand_fill(state, n) == wyrand_take(state, n, fill_chunks(n))

\* wyrand.rs 25-29
wyrand_with_seed(seed) == [kind |-> "wyrand", state |-> seed]

\* rng.rs 66-68: seed << 1 | 1
RECURSIVE ShlBytes(_, _)
ShlBytes(x, carry) ==
    IF x = <<>> THEN <<>>
    ELSE <<((2 * Head(x)) + carry) % 256>> \o ShlBytes(Tail(x), Head(x) \div 128)

\* A seed that is doubled and not made odd.
rng_with_seed_doubled(seed) == wyrand_with_seed(ShlBytes(seed, 0))

rng_with_seed(seed) ==
    LET shifted == ShlBytes(seed, 0)
    IN  wyrand_with_seed([shifted EXCEPT ![1] = (@ - (@ % 2)) + 1])

----------------------------------------------------------------------------
(* Two generators made by with_seed from one seed, A and B, driven by the   *)
(* same operations, and a clone (or fork) of each.  generate_entropy        *)
(* (src/src/entropy.rs) is the operating system's source: entA and entB are *)
(* the 40 bytes it returns to A and to B when it is next called.            *)
(*                                                                          *)
(* ChaCha8::generate reseeds when words 12 and 13 of the block it has just  *)
(* calculated are all ones.  The states whose block is such are about one   *)
(* in 2^64 and cannot be found by search, so a behaviour may start inside   *)
(* generate, at chacha.rs 42, with such a block calculated.                 *)

\* The most operations applied to the pair, and the request sizes.
MaxOps == 3
FillSizes == {3, 8, 70}
CloneFillSizes == {8}

\* A [u8; 40] seed of equal bytes.
Seed40(byte) == [i \in 1..40 |-> byte]

ChaChaSeeds == {Seed40(0)}
Entropy == {Seed40(0), Seed40(1)}

\* u64 seeds of Rng::with_seed: 0, 42 and 0x2FC4F14DC3A14DE8.
WySeeds ==
    { <<0, 0, 0, 0, 0, 0, 0, 0>>, <<42, 0, 0, 0, 0, 0, 0, 0>>,
      <<232, 77, 161, 195, 77, 241, 196, 47>> }

\* fill_bytes / gen of n bytes on either generator.
WyFilled(g, r) ==
    [g |-> [g EXCEPT !.state = r.state], out |-> r.out, exhausted |-> FALSE]

GenFill(g, n, pending, entropy) ==
    IF g.kind = "wyrand" THEN WyFilled(g, wyrand_fill(g.state, n))
    ELSE chacha_fill(g, n, pending, entropy)

\* A clone seeded by the entropy source, not by its parent.
GenCloneFresh(g, entropy) ==
    [g |-> g, exhausted |-> FALSE,
     clone |-> IF g.kind = "wyrand"
               THEN wyrand_with_seed(SubSeq(entropy, 1, 8))
               ELSE chacha_with_seed(entropy)]

\* A clone that is a copy of its parent as rand() left it.
CloneCopies(r) == [g |-> r.g, exhausted |-> r.exhausted, clone |-> r.g]

\* The clone seeded with the bytes r that rand() returned.
CloneOf(r) ==
    [g |-> r.g, exhausted |-> r.exhausted,
     clone |-> IF r.g.kind = "wyrand" THEN wyrand_with_seed(r.out)
               ELSE chacha_with_seed(r.out)]

\* wyrand.rs 72-79 (Rng's derived Clone, and fork, rng.rs 97-103);
\* chacha.rs 83-90.
GenClone(g, entropy) ==
    CloneOf(GenFill(g, IF g.kind = "wyrand" THEN 8 ELSE 40, None, entropy))

\* The block of a generate, with its words 12 and 13 all ones.
ExhaustedBlock(g) ==
    [calculate_block(DoubleRounds, g.state) EXCEPT ![13] = Max32,
                                                   ![14] = Max32]

\* The pair right after with_seed.
SdStart(g, eA, eB) ==
    [pc |-> "ready", a |-> g, b |-> g, ca |-> None, cb |-> None,
     outA |-> <<>>, outB |-> <<>>, outCA |-> <<>>, outCB |-> <<>>,
     entA |-> eA, entB |-> eB,
     exhausted |-> FALSE, cloneExhausted |-> FALSE, cloneOfEqual |-> FALSE,
     last |-> "with_seed", ops |-> 0,
     pending |-> None, target |-> "none", spent |-> None]

\* The pair after a clone of each, ra and rb being what clone() did.
SdWithClones(s, ra, rb) ==
    [s EXCEPT !.a = ra.g, !.b = rb.g,
              !.ca = Some(ra.clone), !.cb = Some(rb.clone),
              !.outCA = <<>>, !.outCB = <<>>,
              !.exhausted = @ \/ ra.exhausted \/ rb.exhausted,
              !.cloneExhausted = FALSE,
              !.cloneOfEqual = (s.a = s.b),
              !.last = "clone", !.ops = @ + 1]

SdCloned(s) ==
    SdWithClones(s, GenClone(s.a, s.entA), GenClone(s.b, s.entB))

\* Inside the generate of a fill of 8 bytes, on the pair or on its clones.
SdPending(s, target) ==
    [s EXCEPT !.pc = "generating", !.target = target,
              !.pending = Some(ExhaustedBlock(IF target = "orig" THEN s.a
                                              ELSE Unwrap(s.ca)))]

InitSeeded ==
    /\ \/ \E seed \in WySeeds :
            sd = SdStart(rng_with_seed(seed), Seed40(0), Seed40(1))
       \/ \E seed \in ChaChaSeeds, eA \in Entropy, eB \in Entropy :
            \/ sd = SdStart(chacha_with_seed(seed), eA, eB)
            \/ sd = SdPending(SdStart(chacha_with_seed(seed), eA, eB), "orig")
            \/ sd = SdPending(
                        [SdCloned(SdStart(chacha_with_seed(seed), eA, eB))
                            EXCEPT !.ops = 0],
                        "clone")
    /\ rs = Unused /\ eb = Unused /\ sh = Unused /\ ch = Unused /\ ws = Unused
    /\ re = Unused /\ un = Unused
    /\ st = Unused /\ iu = Unused /\ mh = Unused /\ at = Unused /\ bo = Unused

\* The pair after a fill on each, ra and rb being what the fills did.
SdFilled(s, ra, rb) ==
    [s EXCEPT !.a = ra.g, !.b = rb.g, !.outA = ra.out, !.outB = rb.out,
              !.exhausted = @ \/ ra.exhausted \/ rb.exhausted,
              !.last = "fill", !.ops = @ + 1]

\* fill_bytes(n) / gen::<n>() on A and on B.
SdFill(n) ==
    /\ sd.pc = "ready" /\ sd.ops < MaxOps
    /\ sd' = SdFilled(sd, GenFill(sd.a, n, None, sd.entA),
                          GenFill(sd.b, n, None, sd.entB))
    /\ UNCHANGED <<rs, eb, sh, ch, ws, re, un, st, iu, mh, at, bo>>

\* clone() / fork() on A and on B; the new clones replace the old.
SdClone ==
    /\ sd.pc = "ready" /\ sd.ops < MaxOps
    /\ sd' = SdCloned(sd)
    /\ UNCHANGED <<rs, eb, sh, ch, ws, re, un, st, iu, mh, at, bo>>

\* The pair after a fill on each clone.
SdCloneFilled(s, ra, rb) ==
    [s EXCEPT !.ca = Some(ra.g), !.cb = Some(rb.g),
              !.outCA = ra.out, !.outCB = rb.out,
              !.cloneExhausted = @ \/ ra.exhausted \/ rb.exhausted,
              !.last = "clone_fill", !.ops = @ + 1]

\* fill_bytes(n) on the two clones.
SdCloneFill(n) ==
    /\ sd.pc = "ready" /\ sd.ops < MaxOps /\ IsSome(sd.ca)
    /\ sd' = SdCloneFilled(sd, GenFill(Unwrap(sd.ca), n, None, sd.entA),
                               GenFill(Unwrap(sd.cb), n, None, sd.entB))
    /\ UNCHANGED <<rs, eb, sh, ch, ws, re, un, st, iu, mh, at, bo>>

\* The generator the generate under way belongs to, in A and in B.
SdSpentA == IF sd.target = "orig" THEN sd.a ELSE Unwrap(sd.ca)
SdSpentB == IF sd.target = "orig" THEN sd.b ELSE Unwrap(sd.cb)

\* The pair after the generate under way, ra and rb being what the fill
\* around it did.
SdGenerated(s, ra, rb) ==
    LET spent == Some([block |-> Unwrap(s.pending),
                       entA |-> s.entA, entB |-> s.entB])
    IN  IF s.target = "orig"
        THEN [s EXCEPT !.pc = "ready", !.a = ra.g, !.b = rb.g,
                       !.outA = ra.out, !.outB = rb.out,
                       !.exhausted = ra.exhausted \/ rb.exhausted,
                       !.pending = None, !.spent = spent,
                       !.last = "generate", !.ops = @ + 1]
        ELSE [s EXCEPT !.pc = "ready",
                       !.ca = Some(ra.g), !.cb = Some(rb.g),
                       !.outCA = ra.out, !.outCB = rb.out,
                       !.cloneExhausted = ra.exhausted \/ rb.exhausted,
                       !.pending = None, !.spent = spent,
                       !.last = "generate", !.ops = @ + 1]

\* The generate under way returns, and the fill of 8 bytes around it.
SdGenerate ==
    /\ sd.pc = "generating"
    /\ sd' = SdGenerated(sd, chacha_fill(SdSpentA, 8, sd.pending, sd.entA),
                             chacha_fill(SdSpentB, 8, sd.pending, sd.entB))
    /\ UNCHANGED <<rs, eb, sh, ch, ws, re, un, st, iu, mh, at, bo>>

NextSeeded ==
    \/ \E n \in FillSizes : SdFill(n)
    \/ SdClone
    \/ \E n \in CloneFillSizes : SdCloneFill(n)
    \/ SdGenerate

SpecSeeded == InitSeeded /\ [][NextSeeded]_vars

\* The pair, or its clones, as the last operation left them.
SdEqual == sd.a = sd.b /\ sd.outA = sd.outB
SdClonesEqual == sd.ca = sd.cb /\ sd.outCA = sd.outCB

NextOutput(g) == GenFill(g, 8, None, Seed40(0)).out

\* C6: clone / fork non-collision.  Right after a clone, the clone is not
\* equal to the generator it was taken of, and the next 8 bytes of the two
\* differ.
CloneNeverCollides ==
    sd.pc = "ready" /\ sd.last = "clone" =>
        /\ Unwrap(sd.ca) # sd.a
        /\ NextOutput(Unwrap(sd.ca)) # NextOutput(sd.a)

\* The block with its counter wrapped to 0.
WrappedCounter(block) == [block EXCEPT ![13] = Zero32, ![14] = Zero32]

----------------------------------------------------------------------------
(* u64 arithmetic on little-endian bytes, and the u64 range sampler          *)
(* (trait_range_int, methods.rs 13-58, as traits.rs 220 instantiates it).    *)

Zero64 == <<0, 0, 0, 0, 0, 0, 0, 0>>
One64 == <<1, 0, 0, 0, 0, 0, 0, 0>>
Max64 == <<255, 255, 255, 255, 255, 255, 255, 255>>

\* A usize below 2^24 as a u64.
ToBytes8(v) ==
    <<v % 256, (v \div 256) % 256, v \div 65536, 0, 0, 0, 0, 0>>

\* u64::wrapping_sub
RECURSIVE SubBorrow(_, _, _)
SubBorrow(x, y, borrow) ==
    IF x = <<>> THEN <<>>
    ELSE <<(256 + Head(x) - Head(y) - borrow) % 256>>
         \o SubBorrow(Tail(x), Tail(y),
                      IF Head(x) - Head(y) - borrow < 0 THEN 1 ELSE 0)

wrapping_sub(x, y) == SubBorrow(x, y, 0)

\* x < y
RECURSIVE LessFrom(_, _, _)
LessFrom(x, y, i) ==
    IF i = 0 THEN FALSE
    ELSE IF x[i] # y[i] THEN x[i] < y[i]
    ELSE LessFrom(x, y, i - 1)

LessBytes(x, y) == LessFrom(x, y, 8)

\* x % m for m below 2^24: long division from the top byte.
RECURSIVE RemSmall(_, _, _, _)
RemSmall(x, m, i, rem) ==
    IF i = 0 THEN rem ELSE RemSmall(x, m, i - 1, ((rem * 256) + x[i]) % m)

\* x / m for m below 2^24: the quotient's bytes i..1, top byte first.
RECURSIVE QuotSmall(_, _, _, _)
QuotSmall(x, m, i, rem) ==
    IF i = 0 THEN <<>>
    ELSE QuotSmall(x, m, i - 1, ((rem * 256) + x[i]) % m)
         \o <<((rem * 256) + x[i]) \div m>>

\* x % m for any m > 0: by long division when m is small, by subtraction
\* otherwise.
RECURSIVE RemBytes(_, _)
RemBytes(x, m) ==
    IF SubSeq(m, 4, 8) = <<0, 0, 0, 0, 0>>
    THEN ToBytes8(RemSmall(x, LeValue(SubSeq(m, 1, 3)), 8, 0))
    ELSE IF LessBytes(x, m) THEN x
    ELSE RemBytes(wrapping_sub(x, m), m)

\* u64::checked_mul by a factor below 2^16: None on overflow.
RECURSIVE MulSmall(_, _, _)
MulSmall(x, k, carry) ==
    IF x = <<>> THEN <<carry>>
    ELSE <<((Head(x) * k) + carry) % 256>>
         \o MulSmall(Tail(x), k, ((Head(x) * k) + carry) \div 256)

CheckedProduct(p) == IF p[9] = 0 THEN Some(SubSeq(p, 1, 8)) ELSE None

checked_mul(x, k) == CheckedProduct(MulSmall(x, k, 0))

\* methods.rs 40: range
U64RangeSize(lower, upper) == wrapping_add(wrapping_sub(upper, lower), One64)

\* methods.rs 45: range.wrapping_neg() % range
U64Threshold(range) == RemBytes(wrapping_sub(Zero64, range), range)

\* methods.rs 42-52 on the product of one generated value and range: None
\* when the value is rejected and another is generated.
U64Accept(product, lower, range) ==
    IF /\ LessBytes(SubSeq(product, 1, 8), range)
       /\ LessBytes(SubSeq(product, 1, 8), U64Threshold(range))
    THEN None
    ELSE Some(wrapping_add(lower, SubSeq(product, 9, 16)))

\* methods.rs 21-55 for u64, on one generated value; lower and upper are
\* the resolved bounds, lower <= upper.
sample_u64(raw, lower, upper) ==
    IF lower = Zero64 /\ upper = Max64 THEN Some(raw)
    ELSE U64Accept(MulBytes(raw, U64RangeSize(lower, upper), 0, 0), lower,
                   U64RangeSize(lower, upper))

\* `as usize` of a sampled u64, for an index that has to be below 2^24 to
\* be in any slice here; IndexOutOfRange stands for all the others.
IndexOutOfRange == 16777216
AsIndex(x) ==
    IF SubSeq(x, 4, 8) = <<0, 0, 0, 0, 0>> THEN LeValue(SubSeq(x, 1, 3))
    ELSE IndexOutOfRange

----------------------------------------------------------------------------
(* shuffle and partial_shuffle (traits.rs 783-845) under both strategies:   *)
(* FAST swaps index with index(..=index) from the end down; SLOW takes its  *)
(* swap indices from IncreasingUniformIter (internal/uniform.rs).  Every    *)
(* generated u64 is an input.                                               *)

\* The longest slice under both strategies; a slice long enough for SLOW to
\* need a second chunk; the most generated values a call has rejected.
MaxShLen == 4
LongLen == 22
MaxRejects == 1

\* Generated u64 values: 0, u64::MAX, 0x9E3779B97F4A7C15 and
\* 0x0123456789ABCDEF.
ShRaws ==
    { Zero64, Max64, <<21, 124, 74, 127, 185, 121, 55, 158>>,
      <<239, 205, 171, 137, 103, 69, 35, 1>> }

ShLens(kind) ==
    IF kind = "SLOW" THEN (0..MaxShLen) \cup {LongLen} ELSE 0..MaxShLen

\* A swap that copies one way only.
swap_overwrite(slice, i, j) == [slice EXCEPT ![i + 1] = slice[j + 1]]

\* slice.swap(i, j), both below the length; the code counts from 0.
swap(slice, i, j) ==
    [slice EXCEPT ![i + 1] = slice[j + 1], ![j + 1] = slice[i + 1]]

\* u64::saturating_sub(1)
saturating_pred(x) == IF x = Zero64 THEN Zero64 ELSE wrapping_sub(x, One64)

\* uniform.rs 100-111
RECURSIVE inner(_, _, _)
inner_next(p, product, current, min) ==
    IF IsSome(p) THEN inner(Unwrap(p), current + 1, min)
    ELSE [bound |-> product, count |-> current - min]

inner(product, current, min) ==
    inner_next(checked_mul(product, current), product, current, min)

\* uniform.rs 96-121; RESULT2 is inner(2).
calculate_bound_u64(min) == inner(ToBytes8(min), min + 1, min)

\* uniform.rs 18-30
IncreasingUniformIter_new(n, len) ==
    [n |-> n, chunk |-> Zero64,
     chunk_remaining |-> IF n = 0 THEN 1 ELSE 0, len |-> len]

\* uniform.rs 49-64: the result and the iterator after it, chunk being
\* self.chunk as line 43 may have set it.
next_swap_index_from(it, chunk, next_chunk_remaining) ==
    IF next_chunk_remaining = 0
    THEN [rejected |-> FALSE, result |-> AsIndex(chunk),
          it |-> [it EXCEPT !.n = @ + 1, !.chunk = chunk,
                            !.chunk_remaining = next_chunk_remaining]]
    ELSE [rejected |-> FALSE, result |-> RemSmall(chunk, it.n + 1, 8, 0),
          it |-> [it EXCEPT !.n = @ + 1,
                            !.chunk = QuotSmall(chunk, it.n + 1, 8, 0),
                            !.chunk_remaining = next_chunk_remaining]]

\* uniform.rs 41-46 once self.rng.u64(..bound) has a generated value:
\* sample is None when the value was rejected.
next_chunk(it, sample, remaining) ==
    IF IsSome(sample)
    THEN next_swap_index_from(it, Unwrap(sample), remaining - 1)
    ELSE [rejected |-> TRUE, result |-> 0, it |-> it]

new_chunk(it, raw, bound) ==
    next_chunk(it,
               sample_u64(raw, Zero64, saturating_pred(bound.bound)),
               bound.count)

\* uniform.rs 36-65 on one generated value
next_swap_index(it, raw) ==
    IF it.chunk_remaining >= 1
    THEN next_swap_index_from(it, it.chunk, it.chunk_remaining - 1)
    ELSE new_chunk(it, raw, calculate_bound_u64(it.n + 1))

ShIdle == [pc |-> "idle"]

\* traits.rs 828 and uniform.rs 73: is there another swap to make?
ShItemsLeft(s) ==
    IF s.kind = "FAST" THEN s.index >= Max(s.n, 1) ELSE s.it.n # s.it.len

\* The call returns when the iteration is over.
ShSettle(s) ==
    IF s.pc = "swapping" /\ ~ShItemsLeft(s) THEN [s EXCEPT !.pc = "done"]
    ELSE s

\* traits.rs 815-841: the call as it enters its loop.
ShStart(op, kind, slice, amount, pc) ==
    [pc |-> pc, op |-> op, kind |-> kind, before |-> slice, slice |-> slice,
     len |-> Len(slice), amount |-> amount,
     n |-> Max(Len(slice) - amount, 0),
     index |-> Len(slice) - 1,
     it |-> IncreasingUniformIter_new(Max(Len(slice) - amount, 0),
                                      Len(slice)),
     rejects |-> 0]

\* traits.rs 830 / 839: slice.swap(i, j), which panics out of bounds.
ShAfterSwap(s, i, j) ==
    IF i < s.len /\ j < s.len
    THEN ShSettle([s EXCEPT !.slice = swap(@, i, j)])
    ELSE [s EXCEPT !.pc = "panicked"]

\* traits.rs 828-830 with index (311-325): sample is u64(0..=index).
ShFastSwap(s, sample) ==
    IF IsSome(sample)
    THEN ShAfterSwap([s EXCEPT !.index = @ - 1], s.index,
                     AsIndex(Unwrap(sample)))
    ELSE [s EXCEPT !.rejects = @ + 1]

\* traits.rs 838-839 with uniform.rs 72-78
ShSlowSwap(s, r) ==
    IF r.rejected THEN [s EXCEPT !.rejects = @ + 1]
    ELSE ShAfterSwap([s EXCEPT !.it = r.it], s.it.n, r.result)

ShStep(s, raw) ==
    IF s.kind = "FAST"
    THEN ShFastSwap(s, sample_u64(raw, Zero64, ToBytes8(s.index)))
    ELSE ShSlowSwap(s, next_swap_index(s.it, raw))

\* The slice of a call: len different elements.
ShSlice(len) == [i \in 1..len |-> i]

\* shuffle(slice) or partial_shuffle(slice, amount) is called.
ShCall(op, kind, len, amount) ==
    /\ sh.pc = "idle"
    /\ op = "shuffle" => amount = len
    /\ sh' = IF op = "shuffle" /\ len < 2
             THEN ShStart(op, kind, ShSlice(len), amount, "done")
             ELSE IF ~(len > 1)
             THEN ShStart(op, kind, ShSlice(len), amount, "panicked")
             ELSE ShSettle(ShStart(op, kind, ShSlice(len), amount,
                                   "swapping"))
    /\ UNCHANGED <<rs, eb, sd, ch, ws, re, un, st, iu, mh, at, bo>>

\* One turn of the loop on one generated value: a swap, or the value is
\* rejected and the turn is taken again.
ShSwap(raw) ==
    /\ sh.pc = "swapping"
    /\ ShStep(sh, raw).rejects > sh.rejects => sh.rejects < MaxRejects
    /\ sh' = ShStep(sh, raw)
    /\ UNCHANGED <<rs, eb, sd, ch, ws, re, un, st, iu, mh, at, bo>>

InitShuffle ==
    /\ sh = ShIdle
    /\ rs = Unused /\ eb = Unused /\ sd = Unused /\ ch = Unused /\ ws = Unused
    /\ re = Unused /\ un = Unused
    /\ st = Unused /\ iu = Unused /\ mh = Unused /\ at = Unused /\ bo = Unused

NextShuffle ==
    \/ \E op \in {"shuffle", "partial_shuffle"}, kind \in {"FAST", "SLOW"} :
         \E len \in ShLens(kind), amount \in 0..(MaxShLen + 1) \cup {LongLen} :
            ShCall(op, kind, len, amount)
    \/ \E raw \in ShRaws : ShSwap(raw)

SpecShuffle == InitShuffle /\ [][NextShuffle]_vars

\* The same elements, each as often.
Count(seq, v) == Cardinality({i \in 1..Len(seq) : seq[i] = v})
IsPermutation(s, t) ==
    /\ Len(s) = Len(t)
    /\ \A i \in 1..Len(t) : Count(s, t[i]) = Count(t, t[i])

\* C7: shuffle permutation validity.  A call of shuffle or partial_shuffle
\* on a slice of 2 or more elements does not panic, and at every point of
\* it, its return included, the slice holds the elements it held before.
ShufflePermutation ==
    sh.pc # "idle" /\ sh.pc # "unused" /\ sh.len >= 2 =>
        /\ sh.pc # "panicked"
        /\ IsPermutation(sh.slice, sh.before)

\* SLOW has shuffled the long slice, through its second chunk, after a
\* rejected value.
ShufflePermutationWitness ==
    /\ sh.pc = "done" /\ sh.kind = "SLOW" /\ sh.op = "shuffle"
    /\ sh.len = LongLen /\ sh.rejects = 1
    /\ sh.slice # sh.before
    /\ sh.slice[LongLen] # LongLen

----------------------------------------------------------------------------
(* char(bounds) (traits.rs 918-967), which samples a u32 between the        *)
(* resolved scalars with the surrogates taken out (trait_range_int as       *)
(* traits.rs 220 instantiates it).  A char is its scalar value; a u32 that  *)
(* may not be a char is 4 little-endian bytes.                              *)

SURROGATE_START == 55296
SURROGATE_LENGTH == 2048

\* char::MAX
CharMax == 1114111

\* How many generated values one call may take before the model stops
\* following it.
MaxCharDraws == 2

\* `x as u32` for x below 2^31
U32(v) ==
    <<v % 256, (v \div 256) % 256, (v \div 65536) % 256, v \div 16777216>>

\* Is the scalar a char: not a surrogate, not above char::MAX.
IsChar(v) ==
    /\ v >= 0 /\ v <= CharMax
    /\ ~(v >= SURROGATE_START /\ v < SURROGATE_START + SURROGATE_LENGTH)

\* char::from_u32
from_u32(b) ==
    IF b[4] = 0 /\ IsChar(LeValue(SubSeq(b, 1, 3)))
    THEN Some(LeValue(SubSeq(b, 1, 3)))
    ELSE None

\* traits.rs 926-930
ExclusiveLowerScalar(x) ==
    IF x = SURROGATE_START - 1 THEN U32(SURROGATE_START + SURROGATE_LENGTH)
    ELSE wrapping_add(U32(x), U32(1))

\* traits.rs 939-943
ExclusiveUpperScalar(x) ==
    IF x = SURROGATE_START + SURROGATE_LENGTH THEN U32(SURROGATE_START - 1)
    ELSE wrapping_sub(U32(x), U32(1))

\* traits.rs 922-933: None when expect panics.
CharLower(b) ==
    CASE b.kind = "Unbounded" -> Some(0)
      [] b.kind = "Included" -> Some(b.val)
      [] OTHER -> from_u32(ExclusiveLowerScalar(b.val))

\* traits.rs 935-946: None when expect panics.
CharUpper(b) ==
    CASE b.kind = "Unbounded" -> Some(CharMax)
      [] b.kind = "Included" -> Some(b.val)
      [] OTHER -> from_u32(ExclusiveUpperScalar(b.val))

\* A range that is sampled with the surrogates left in.
CharGapNone(lower_scalar, upper_scalar) == 0

\* traits.rs 953-957
CharGap(lower_scalar, upper_scalar) ==
    IF lower_scalar < SURROGATE_START /\ upper_scalar >= SURROGATE_START
    THEN SURROGATE_LENGTH
    ELSE 0

ChIdle == [pc |-> "idle"]

ChPanicked(sb, ub, where) ==
    [pc |-> "panicked", start |-> sb, end |-> ub, where |-> where]

\* traits.rs 959-960 and methods.rs 24-35: self.u32(lower_scalar..=range)
\* resolves its bounds and asserts lower <= upper.
CharSampling(sb, ub, lower, upper, gap) ==
    IF lower <= upper - gap
    THEN [pc |-> "sampling", start |-> sb, end |-> ub, where |-> "",
          lower |-> lower, upper |-> upper, gap |-> gap,
          range |-> upper - gap, draws |-> 0, result |-> 0]
    ELSE ChPanicked(sb, ub, "u32")

\* traits.rs 922-957
CharResolved(sb, ub, lower, upper) ==
    IF ~IsSome(lower) \/ ~IsSome(upper) THEN ChPanicked(sb, ub, "expect")
    ELSE IF ~(Unwrap(upper) >= Unwrap(lower))
    THEN ChPanicked(sb, ub, "assert")
    ELSE CharSampling(sb, ub, Unwrap(lower), Unwrap(upper),
                      CharGap(Unwrap(lower), Unwrap(upper)))

\* char(bounds) is called.
CharCall(sb, ub) ==
    /\ ch.pc = "idle"
    /\ ch' = CharResolved(sb, ub, CharLower(sb), CharUpper(ub))
    /\ UNCHANGED <<rs, eb, sd, sh, ws, re, un, st, iu, mh, at, bo>>

\* traits.rs 966: char::from_u32(val).unwrap()
CharReturn(s, val) ==
    IF IsSome(from_u32(U32(val)))
    THEN [s EXCEPT !.pc = "returned", !.draws = @ + 1, !.result = val]
    ELSE [s EXCEPT !.pc = "panicked", !.where = "unwrap"]

\* traits.rs 962-964
CharAddGap(s, val) ==
    CharReturn(s, IF val >= SURROGATE_START THEN val + s.gap ELSE val)

\* methods.rs 37-55 for u32 on one generated value; size is `range` of
\* line 40.  The range ends at char::MAX at most, so the bounds are never
\* (u32::MIN, u32::MAX).
CharSample(s, raw, size) ==
    IF Rejects(raw, size, 32, s.draws = 0) THEN [s EXCEPT !.draws = @ + 1]
    ELSE CharAddGap(s, s.lower + MulWide(raw, size, 0).high)

\* One generated u32, taken or rejected.
CharDraw(raw) ==
    /\ ch.pc = "sampling"
    /\ ch.draws < MaxCharDraws
    /\ ch' = CharSample(ch, raw, (ch.range - ch.lower) + 1)
    /\ UNCHANGED <<rs, eb, sd, sh, ws, re, un, st, iu, mh, at, bo>>

\* The caller makes its next call.
CharDone ==
    /\ ch.pc \in {"returned", "panicked"}
    /\ ch' = ChIdle
    /\ UNCHANGED <<rs, eb, sd, sh, ws, re, un, st, iu, mh, at, bo>>

\* The enumerated bound values: the chars next to 0, to the surrogates and
\* to char::MAX, and 'a'.
CharVals ==
    { 0, 1, 2, 97, SURROGATE_START - 2, SURROGATE_START - 1,
      SURROGATE_START + SURROGATE_LENGTH,
      SURROGATE_START + SURROGATE_LENGTH + 1, CharMax - 1, CharMax }

CharBounds ==
    {Unbounded} \cup { Included(v) : v \in CharVals }
                \cup { Excluded(v) : v \in CharVals }

\* Generated u32 values: every top byte of six over low bytes all 0 or all
\* 255.
CharRaws ==
    { <<l, l, l, t>> : l \in {0, 255}, t \in {0, 64, 128, 158, 192, 255} }

InitChar ==
    /\ ch = ChIdle
    /\ rs = Unused /\ eb = Unused /\ sd = Unused /\ sh = Unused /\ ws = Unused
    /\ re = Unused /\ un = Unused
    /\ st = Unused /\ iu = Unused /\ mh = Unused /\ at = Unused /\ bo = Unused

NextChar ==
    \/ \E sb \in CharBounds, ub \in CharBounds : CharCall(sb, ub)
    \/ \E raw \in CharRaws : CharDraw(raw)
    \/ CharDone

SpecChar == InitChar /\ [][NextChar]_vars

\* The least char of a range that has one is 0, a bound value or the char
\* after a bound value.
CharProbes ==
    { c \in {0} \cup CharVals \cup { v + 1 : v \in CharVals } : IsChar(c) }

CharDenotesEmpty(sb, ub) == \A c \in CharProbes : ~Contains(c, sb, ub)

CharCalled == ch.pc \in {"sampling", "returned", "panicked"}

\* C8: surrogate avoidance.  A call of char(bounds) on bounds that denote
\* at least one char does not panic, whatever the generator returns, and the
\* scalar it returns is no surrogate, is at most char::MAX, lies between the
\* resolved lower and upper chars and is one of the chars the bounds denote.
SurrogateAvoidance ==
    /\ (CharCalled /\ ~CharDenotesEmpty(ch.start, ch.end)) =>
           ch.pc # "panicked"
    /\ ch.pc = "returned" =>
           /\ IsChar(ch.result)
           /\ ch.lower <= ch.result /\ ch.result <= ch.upper
           /\ Contains(ch.result, ch.start, ch.end)

\* A range across the surrogates, from 0xD7FE up to but not 0xE001, whose
\* first generated value was rejected and whose second gave the scalar past
\* the gap.
SurrogateAvoidanceWitness ==
    /\ ch.pc = "returned" /\ ch.draws = 2
    /\ ch.start = Included(SURROGATE_START - 2)
    /\ ch.end = Excluded(SURROGATE_START + SURROGATE_LENGTH + 1)
    /\ ch.gap = SURROGATE_LENGTH
    /\ ch.result = SURROGATE_START + SURROGATE_LENGTH

----------------------------------------------------------------------------
(* weighted_sample and weighted_sample_mut (traits.rs 609-632, 737-765),    *)
(* with index (311-325) and chance (359-374).  The weight function is given *)
(* by the rate it returns for each index; every generated u64 is an input.  *)

\* The longest list, and the most generated values a call may take before
\* the model stops following it.
MaxWsLen == 3
MaxWsDraws == 3

\* An f64 rate: a number of quarters, or NaN, or 2^-65, written as 0
\* quarters and tiny.
Rate(q) == [nan |-> FALSE, q |-> q, tiny |-> FALSE]
NaN == [nan |-> TRUE, q |-> 0, tiny |-> FALSE]
Tiny == [nan |-> FALSE, q |-> 0, tiny |-> TRUE]

\* The rates a weight function returns here: -0.25, 0.0, 2^-65, 0.5, 1.0,
\* 1.25 and NaN.
WsRates == {Rate(0 - 1), Rate(0), Tiny, Rate(2), Rate(4), Rate(5), NaN}

\* A test of the rate that compares as if NaN were a number.
RateInUnitNumber(rate) == rate.q >= 0 /\ rate.q <= 4

\* traits.rs 363: (0.0..=1.0).contains(&rate)
RateInUnit(rate) == ~rate.nan /\ rate.q >= 0 /\ rate.q <= 4

\* A cast that takes every rate below 1.0 to 0.
rate_int_floor(rate) == IF rate.q >= 4 THEN Max64 ELSE Zero64

\* traits.rs 360, 367: (rate * SCALE) as u64 with SCALE = 2^64; the cast
\* truncates (2^-65 * 2^64 = 0.5 becomes 0) and saturates, and NaN becomes
\* 0.
rate_int(rate) ==
    IF rate.nan \/ rate.q <= 0 THEN Zero64
    ELSE IF rate.q >= 4 THEN Max64
    ELSE <<0, 0, 0, 0, 0, 0, 0, rate.q * 64>>

\* The list of a call: len different items.
WsList(len) == [i \in 1..len |-> 100 + i]

WsIdle == [pc |-> "idle"]

WsState(pc, op, len, weights, result) ==
    [pc |-> pc, op |-> op, len |-> len, list |-> WsList(len),
     weights |-> weights, result |-> result, calls |-> 0, draws |-> 0,
     index |-> 0, rate_int |-> Zero64]

\* A call that takes a list of one item through the loop.
weighted_sample_loops(op, len, weights) ==
    IF len = 0 THEN WsState("returned", op, len, weights, None)
    ELSE WsState("index", op, len, weights, None)

\* traits.rs 614-620 / 746-752: the match on list.len()
weighted_sample(op, len, weights) ==
    IF len = 0 THEN WsState("returned", op, len, weights, None)
    ELSE IF len = 1
    THEN WsState("returned", op, len, weights, Some(WsList(len)[1]))
    ELSE WsState("index", op, len, weights, None)

\* weighted_sample(list, weight_sampler) or weighted_sample_mut is called.
WsCall(op, len, weights) ==
    /\ ws.pc = "idle"
    /\ ws' = weighted_sample(op, len, weights)
    /\ UNCHANGED <<rs, eb, sd, sh, ch, re, un, st, iu, mh, at, bo>>

\* A return of the first item of the list.
WsReturnFirst(s) == [s EXCEPT !.pc = "returned", !.result = Some(s.list[1])]

\* traits.rs 629 / 762: return Some(item)
WsReturn(s) == [s EXCEPT !.pc = "returned", !.result = Some(s.list[s.index + 1])]

\* traits.rs 359-374 up to the match: chance(rate) asserts, returns at once
\* for a rate_int of u64::MAX or 0, and takes a generated value otherwise.
chance_begin(s, rate) ==
    IF ~RateInUnit(rate) THEN [s EXCEPT !.pc = "panicked"]
    ELSE IF rate_int(rate) = Max64 THEN WsReturn(s)
    ELSE IF rate_int(rate) = Zero64 THEN [s EXCEPT !.pc = "index"]
    ELSE [s EXCEPT !.pc = "chance", !.rate_int = rate_int(rate)]

\* traits.rs 625-627: list.get(index).filter(.. weight_sampler((item, index)))
WsGet(s, index) ==
    IF index < s.len
    THEN chance_begin([s EXCEPT !.index = index, !.calls = @ + 1],
                      s.weights[index + 1])
    ELSE s

\* traits.rs 623 with index (311-325): sample is u64(0..=len - 1), None
\* when the generated value was rejected.
WsIndexed(s, sample) ==
    IF IsSome(sample) THEN WsGet(s, AsIndex(Unwrap(sample))) ELSE s

\* One generated value for self.index(..len).
WsIndex(raw) ==
    /\ ws.pc = "index"
    /\ ws.draws < MaxWsDraws
    /\ ws' = WsIndexed([ws EXCEPT !.draws = @ + 1],
                       sample_u64(raw, Zero64, ToBytes8(Max(ws.len - 1, 0))))
    /\ UNCHANGED <<rs, eb, sd, sh, ch, re, un, st, iu, mh, at, bo>>

\* traits.rs 372: self.gen_u64() < rate_int
WsChance(raw) ==
    /\ ws.pc = "chance"
    /\ ws.draws < MaxWsDraws
    /\ ws' = IF LessBytes(raw, ws.rate_int)
             THEN WsReturn([ws EXCEPT !.draws = @ + 1])
             ELSE [ws EXCEPT !.draws = @ + 1, !.pc = "index"]
    /\ UNCHANGED <<rs, eb, sd, sh, ch, re, un, st, iu, mh, at, bo>>

\* The caller makes its next call.
WsDone ==
    /\ ws.pc \in {"returned", "panicked"}
    /\ ws' = WsIdle
    /\ UNCHANGED <<rs, eb, sd, sh, ch, re, un, st, iu, mh, at, bo>>

InitWeighted ==
    /\ ws = WsIdle
    /\ rs = Unused /\ eb = Unused /\ sd = Unused /\ sh = Unused /\ ch = Unused
    /\ re = Unused /\ un = Unused
    /\ st = Unused /\ iu = Unused /\ mh = Unused /\ at = Unused /\ bo = Unused

NextWeighted ==
    \/ \E op \in {"weighted_sample", "weighted_sample_mut"}, len \in 0..MaxWsLen :
         \E weights \in [1..len -> WsRates] : WsCall(op, len, weights)
    \/ \E raw \in ShRaws : WsIndex(raw)
    \/ \E raw \in ShRaws : WsChance(raw)
    \/ WsDone

SpecWeighted == InitWeighted /\ [][NextWeighted]_vars

WsCalled == ws.pc \in {"index", "chance", "returned", "panicked"}

\* C10: weighted_sample on an empty list returns None, and on a list of one
\* item returns that item, in both cases at once: the weight function has
\* not been called and no generated value has been taken.  Whenever it
\* returns for a list that is not empty, it returns Some item of the list.
WeightedSampleEdges ==
    /\ (WsCalled /\ ws.len <= 1) =>
           /\ ws.pc = "returned" /\ ws.calls = 0 /\ ws.draws = 0
           /\ ws.len = 0 => ws.result = None
           /\ ws.len = 1 => ws.result = Some(ws.list[1])
    /\ (ws.pc = "returned" /\ ws.len >= 1) =>
           /\ IsSome(ws.result)
           /\ \E i \in 1..ws.len : Unwrap(ws.result) = ws.list[i]

\* The sole item of a list has been returned although the weight function
\* would have returned NaN for it.
WeightedSampleEdgesWitness ==
    /\ ws.pc = "returned" /\ ws.op = "weighted_sample" /\ ws.len = 1
    /\ ws.weights[1] = NaN
    /\ ws.result = Some(ws.list[1])

----------------------------------------------------------------------------
(* Further properties of weighted_sample and of shuffle.                    *)

\* A rate below 0, above 1, or NaN.
RateInvalid(rate) == rate.nan \/ rate.q < 0 \/ rate.q > 4

\* C11: invalid weight.  In a call on a list of 2 or more items, once the
\* weight function has returned a rate that is not between 0.0 and 1.0 for
\* the candidate just drawn (ws.index), the call has panicked: it has not
\* returned an item and draws no other candidate.
InvalidWeightPanics ==
    (WsCalled /\ ws.len >= 2 /\ ws.calls > 0
        /\ RateInvalid(ws.weights[ws.index + 1])) => ws.pc = "panicked"

\* The second candidate of a call on three items, drawn with the call's
\* third generated value, had the rate NaN.
InvalidWeightPanicsWitness ==
    /\ ws.pc = "panicked" /\ ws.len = 3 /\ ws.calls = 2 /\ ws.draws = 3
    /\ ws.weights[ws.index + 1] = NaN

\* C12: zero-length shuffles.  shuffle and partial_shuffle on a slice of
\* 0 or 1 elements, with any amount, return at once (no generated value is
\* taken), without a panic and with the slice as it was.
ShortShuffleReturns ==
    (sh.pc \in {"swapping", "done", "panicked"} /\ sh.len < 2) =>
        /\ sh.pc = "done"
        /\ sh.slice = sh.before

----------------------------------------------------------------------------
(* Seeding and reseeding: a generator is made by with_seed, used, and then  *)
(* reseeded, next to a fresh generator made by with_seed from the seed of   *)
(* the reseed; or its first block is generated at once, as the tests of     *)
(* chacha.rs do.  Rng and AtomicRng have the same with_seed and reseed      *)
(* (rng.rs 61-74, 200-214).  The fills follow a little-endian build; the    *)
(* block generated at once is taken on a target of either byte order.       *)

\* The fills made before the reseed and after it, at most.
MaxPrior == 2
MaxAfter == 2

ReFillSizes == {3, 70}

\* wyrand.rs 31-35 through rng.rs 71-73: Rng::reseed hands the seed on as
\* it is.
rng_reseed(g, seed) == [g EXCEPT !.state = seed]

\* The test vectors of chacha.rs 340-434: seed and the 64 bytes expected of
\* the first generate().
TestVectors ==
    <<
      \* zeroed_vector (chacha.rs 340)
      [seed |->
         <<0, 0, 0, 0, 0, 0, 0, 0, 0, 0, 0, 0, 0, 0, 0, 0, 0, 0, 0, 0, 0, 0,
           0, 0, 0, 0, 0, 0, 0, 0, 0, 0, 0, 0, 0, 0, 0, 0, 0, 0>>,
       output |->
         <<62, 0, 239, 47, 137, 95, 64, 214, 127, 91, 184, 232, 31, 9, 165,
           161, 44, 132, 14, 195, 206, 154, 127, 59, 24, 27, 225, 136, 239,
           113, 26, 30, 152, 76, 225, 114, 185, 33, 111, 65, 159, 68, 83,
           103, 69, 109, 86, 25, 49, 74, 66, 163, 218, 134, 176, 1, 56, 123,
           253, 184, 14, 12, 254, 66>>],
      \* key_vector_one (chacha.rs 352)
      [seed |->
         <<1, 0, 0, 0, 0, 0, 0, 0, 0, 0, 0, 0, 0, 0, 0, 0, 0, 0, 0, 0, 0, 0,
           0, 0, 0, 0, 0, 0, 0, 0, 0, 0, 0, 0, 0, 0, 0, 0, 0, 0>>,
       output |->
         <<207, 94, 233, 160, 73, 74, 169, 97, 62, 5, 213, 237, 114, 91, 128,
           75, 18, 244, 164, 101, 238, 99, 90, 204, 58, 49, 29, 232, 116, 4,
           137, 234, 40, 157, 4, 244, 60, 117, 24, 219, 86, 235, 68, 51, 228,
           152, 161, 35, 140, 216, 70, 77, 55, 99, 221, 187, 146, 34, 238,
           59, 216, 250, 227, 200>>],
      \* iv_vector_one (chacha.rs 368)
      [seed |->
         <<0, 0, 0, 0, 0, 0, 0, 0, 0, 0, 0, 0, 0, 0, 0, 0, 0, 0, 0, 0, 0, 0,
           0, 0, 0, 0, 0, 0, 0, 0, 0, 0, 1, 0, 0, 0, 0, 0, 0, 0>>,
       output |->
         <<43, 143, 75, 179, 121, 131, 6, 202, 81, 48, 212, 124, 79, 141, 78,
           209, 58, 160, 237, 204, 193, 190, 105, 66, 9, 15, 174, 236, 160,
           215, 89, 155, 127, 240, 254, 97, 107, 178, 90, 160, 21, 58, 214,
           253, 200, 139, 149, 73, 3, 194, 36, 38, 212, 120, 185, 123, 34,
           184, 249, 177, 219, 0, 207, 6>>],
      \* filled_vector (chacha.rs 384)
      [seed |->
         <<255, 255, 255, 255, 255, 255, 255, 255, 255, 255, 255, 255, 255,
           255, 255, 255, 255, 255, 255, 255, 255, 255, 255, 255, 255, 255,
           255, 255, 255, 255, 255, 255, 255, 255, 255, 255, 255, 255, 255,
           255>>,
       output |->
         <<225, 99, 187, 248, 201, 167, 57, 209, 137, 37, 238, 131, 98, 218,
           210, 205, 201, 115, 223, 5, 34, 90, 251, 42, 162, 99, 150, 242,
           169, 132, 154, 74, 68, 94, 5, 71, 211, 28, 22, 35, 197, 55, 223,
           75, 168, 92, 112, 169, 136, 74, 53, 188, 191, 61, 250, 176, 119,
           233, 139, 15, 104, 19, 95, 84>>],
      \* every_even_bit_vector (chacha.rs 396)
      [seed |->
         <<85, 85, 85, 85, 85, 85, 85, 85, 85, 85, 85, 85, 85, 85, 85, 85,
           85, 85, 85, 85, 85, 85, 85, 85, 85, 85, 85, 85, 85, 85, 85, 85,
           85, 85, 85, 85, 85, 85, 85, 85>>,
       output |->
         <<124, 183, 130, 20, 228, 211, 70, 91, 109, 198, 44, 247, 161, 83,
           140, 136, 153, 105, 82, 180, 251, 114, 203, 97, 5, 241, 36, 60,
           227, 68, 46, 41, 117, 165, 158, 188, 210, 178, 165, 152, 41, 13,
           117, 56, 73, 31, 230, 91, 219, 254, 253, 6, 13, 136, 121, 129, 32,
           167, 13, 4, 157, 194, 103, 125>>],
      \* every_odd_bit_vector (chacha.rs 408)
      [seed |->
         <<170, 170, 170, 170, 170, 170, 170, 170, 170, 170, 170, 170, 170,
           170, 170, 170, 170, 170, 170, 170, 170, 170, 170, 170, 170, 170,
           170, 170, 170, 170, 170, 170, 170, 170, 170, 170, 170, 170, 170,
           170>>,
       output |->
         <<64, 249, 171, 134, 200, 249, 161, 160, 205, 192, 90, 117, 229, 83,
           27, 97, 45, 113, 239, 127, 12, 249, 227, 135, 223, 110, 214, 151,
           47, 10, 174, 33, 49, 26, 165, 129, 248, 22, 201, 14, 138, 153,
           222, 153, 11, 107, 149, 170, 201, 36, 80, 244, 225, 18, 113, 38,
           103, 184, 4, 201, 158, 156, 110, 218>>],
      \* sequence_vector (chacha.rs 420)
      [seed |->
         <<0, 17, 34, 51, 68, 85, 102, 119, 136, 153, 170, 187, 204, 221,
           238, 255, 255, 238, 221, 204, 187, 170, 153, 136, 119, 102, 85,
           68, 51, 34, 17, 0, 15, 30, 45, 60, 75, 90, 105, 120>>,
       output |->
         <<219, 67, 173, 157, 30, 132, 45, 18, 114, 228, 83, 14, 39, 107, 63,
           86, 143, 136, 89, 179, 247, 207, 109, 157, 44, 116, 250, 83, 128,
           140, 181, 21, 122, 142, 191, 70, 173, 61, 204, 75, 108, 125, 173,
           222, 19, 23, 132, 176, 18, 14, 14, 34, 246, 213, 249, 255, 167,
           64, 125, 74, 33, 182, 149, 217>>]
    >>

VectorSeeds == { TestVectors[i].seed : i \in 1..Len(TestVectors) }

\* u64 seeds: those of WySeeds, 12345, u64::MAX and 2^63.
ReWySeeds ==
    WySeeds \cup { <<57, 48, 0, 0, 0, 0, 0, 0>>, Max64,
                   <<0, 0, 0, 0, 0, 0, 0, 128>> }

ReSeeds(kind) == IF kind = "wyrand" THEN ReWySeeds ELSE VectorSeeds

\* The seeds of a reseed.
ReReseeds(kind) ==
    IF kind = "wyrand" THEN ReWySeeds ELSE {Seed40(0), Seed40(255)}

\* u32::to_ne_bytes on a target of the given byte order.
to_ne_bytes(word, target) ==
    IF target = "little" THEN Bytes32(word)
    ELSE <<Bytes32(word)[4], Bytes32(word)[3], Bytes32(word)[2],
           Bytes32(word)[1]>>

\* chacha.rs 42-48: new_state.iter().flat_map(|num| num.to_ne_bytes())
RECURSIVE NeBlockBytes(_, _, _)
NeBlockBytes(words, i, target) ==
    IF i > 16 THEN <<>>
    ELSE to_ne_bytes(words[i], target) \o NeBlockBytes(words, i + 1, target)

SeededKind(kind, seed) ==
    IF kind = "wyrand" THEN rng_with_seed(seed) ELSE chacha_with_seed(seed)

ReseededKind(g, seed) ==
    IF g.kind = "wyrand" THEN rng_reseed(g, seed) ELSE chacha_reseed(g, seed)

\* How many bytes of the cached block have not been returned.
ReCached(g) ==
    IF g.kind = "wyrand" THEN 0 ELSE old_remaining_buffer(g.cache)

ReNew == [pc |-> "new"]

ReState(pc, kind, seed0, seed, g, fresh) ==
    [pc |-> pc, kind |-> kind, seed0 |-> seed0, seed |-> seed, g |-> g,
     fresh |-> fresh, ops |-> 0, out |-> <<>>, outFresh |-> <<>>,
     stale |-> 0, target |-> "little"]

\* with_seed(seed)
ReWithSeed(kind, seed) ==
    /\ re.pc = "new"
    /\ re' = ReState("seeded", kind, seed, seed, SeededKind(kind, seed),
                     SeededKind(kind, seed))
    /\ UNCHANGED <<rs, eb, sd, sh, ch, ws, un, st, iu, mh, at, bo>>

ReUsed(s, r) == [s EXCEPT !.g = r.g, !.out = r.out, !.ops = @ + 1]

\* fill_bytes(n) before the reseed
ReUse(n) ==
    /\ re.pc = "seeded" /\ re.ops < MaxPrior
    /\ re' = ReUsed(re, GenFill(re.g, n, None, Seed40(0)))
    /\ UNCHANGED <<rs, eb, sd, sh, ch, ws, un, st, iu, mh, at, bo>>

\* reseed(seed) on the used generator, and with_seed(seed) for a fresh one.
ReReseed(seed) ==
    /\ re.pc = "seeded"
    /\ re' = [ReState("reseeded", re.kind, re.seed0, seed,
                      ReseededKind(re.g, seed), SeededKind(re.kind, seed))
                 EXCEPT !.stale = ReCached(re.g)]
    /\ UNCHANGED <<rs, eb, sd, sh, ch, ws, un, st, iu, mh, at, bo>>

ReFilled(s, r, f) ==
    [s EXCEPT !.g = r.g, !.out = r.out, !.fresh = f.g, !.outFresh = f.out,
              !.ops = @ + 1]

\* fill_bytes(n) on the reseeded generator and on the fresh one.
ReFill(n) ==
    /\ re.pc = "reseeded" /\ re.ops < MaxAfter
    /\ re' = ReFilled(re, GenFill(re.g, n, None, Seed40(0)),
                          GenFill(re.fresh, n, None, Seed40(0)))
    /\ UNCHANGED <<rs, eb, sd, sh, ch, ws, un, st, iu, mh, at, bo>>

ReGenerated(s, block, target) ==
    [s EXCEPT !.pc = "generated", !.target = target, !.ops = @ + 1,
              !.g = generate_with_block(s.g, block, Seed40(0)).g,
              !.out = NeBlockBytes(block, 1, target)]

\* chacha.rs 37-61: generate() right after with_seed, on a build for a
\* target of the given byte order.
ReGenerate(target) ==
    /\ re.pc = "seeded" /\ re.kind = "chacha" /\ re.ops = 0
    /\ re' = ReGenerated(re, calculate_block(DoubleRounds, re.g.state),
                         target)
    /\ UNCHANGED <<rs, eb, sd, sh, ch, ws, un, st, iu, mh, at, bo>>

\* The generator is dropped.
ReDone ==
    /\ re.pc \in {"reseeded", "generated"}
    /\ re' = ReNew
    /\ UNCHANGED <<rs, eb, sd, sh, ch, ws, un, st, iu, mh, at, bo>>

InitReseed ==
    /\ re = ReNew
    /\ rs = Unused /\ eb = Unused /\ sd = Unused /\ sh = Unused
    /\ ch = Unused /\ ws = Unused /\ un = Unused
    /\ st = Unused /\ iu = Unused /\ mh = Unused /\ at = Unused /\ bo = Unused

NextReseed ==
    \/ \E kind \in {"wyrand", "chacha"} : \E seed \in ReSeeds(kind) :
         ReWithSeed(kind, seed)
    \/ \E n \in ReFillSizes : ReUse(n)
    \/ \E kind \in {"wyrand", "chacha"} : \E seed \in ReReseeds(kind) :
         re.pc = "seeded" /\ re.kind = kind /\ ReReseed(seed)
    \/ \E n \in ReFillSizes : ReFill(n)
    \/ \E target \in {"little", "big"} : ReGenerate(target)
    \/ ReDone

SpecReseed == InitReseed /\ [][NextReseed]_vars

\* ((seed << 1) | 1) mod 2^64 by addition: seed + seed + 1, the carry out
\* of the top byte dropped.
DoubledPlusOne(seed) == AddBytes(seed, seed, 1)

\* C13: WyRand seeding forces the state odd.  Right after with_seed(seed)
\* the stored state is ((seed << 1) | 1) mod 2^64, which is odd.
WyRandSeedOdd ==
    (re.pc = "seeded" /\ re.kind = "wyrand" /\ re.ops = 0) =>
        /\ re.g.state = DoubledPlusOne(re.seed)
        /\ re.g.state[1] % 2 = 1

\* with_seed(12345) has stored 24691.
WyRandSeedOddWitness ==
    /\ re.pc = "seeded" /\ re.kind = "wyrand" /\ re.ops = 0
    /\ re.seed = <<57, 48, 0, 0, 0, 0, 0, 0>>
    /\ re.g.state = <<115, 96, 0, 0, 0, 0, 0, 0>>

\* C14: WyRand reseed forces the state odd as well.  After reseed(seed) the
\* stored state is ((seed << 1) | 1) mod 2^64, the generator equals a fresh
\* with_seed(seed), and the two return the same bytes.
WyRandReseedAsSeeded ==
    (re.pc = "reseeded" /\ re.kind = "wyrand") =>
        /\ re.g = re.fresh
        /\ re.out = re.outFresh
        /\ re.ops = 0 => re.g.state = DoubledPlusOne(re.seed)

\* C15: ChaCha8 reseed equivalence.  After reseed(seed), whatever was
\* generated and cached before, the generator equals a fresh
\* with_seed(seed) and stays equal to it under the same fills, which return
\* the same bytes; right after the reseed its state is init_state(seed),
\* counter 0, and its cache is empty.
ChaChaReseedEquivalent ==
    (re.pc = "reseeded" /\ re.kind = "chacha") =>
        /\ re.g = re.fresh
        /\ re.out = re.outFresh
        /\ re.ops = 0 =>
              /\ re.g.state = init_state(re.seed)
              /\ re.g.state[13] = Zero32 /\ re.g.state[14] = Zero32
              /\ old_is_empty(re.g.cache)

\* A generator seeded with zeroes, with 61 bytes of its block not yet
\* returned, was reseeded with 0xFF bytes and has since returned 70 bytes
\* in its second fill.
ChaChaReseedEquivalentWitness ==
    /\ re.pc = "reseeded" /\ re.kind = "chacha"
    /\ re.seed0 = Seed40(0) /\ re.seed = Seed40(255)
    /\ re.stale = 61 /\ re.ops = 2
    /\ Len(re.out) = 70 /\ re.out = re.outFresh

\* C16: ChaCha8 block vectors.  The 64 bytes of the first generate() after
\* with_seed(seed) are the words of calculate_block on init_state(seed),
\* each as 4 little-endian bytes in word order, and for the seeds of the
\* test vectors they are the documented bytes.
ChaChaBlockVectors ==
    (re.pc = "generated") =>
        /\ re.out = BlockBytes(
                        calculate_block(DoubleRounds, init_state(re.seed)), 1)
        /\ \A i \in 1..Len(TestVectors) :
              re.seed = TestVectors[i].seed => re.out = TestVectors[i].output

----------------------------------------------------------------------------
(* Further properties of sample_W(bounds).                                  *)

RangeFullWidth ==
    rs.lower = TypeMin(rs.signed) /\ rs.upper = TypeMax(rs.signed)

\* C17: full-width fast path.  A call whose resolved bounds are (MIN, MAX)
\* takes exactly one raw value, rejects none and returns its bits
\* unchanged, so that every value of the type is the result of exactly one
\* raw value.  A call with any other resolved pair lower <= upper has a
\* range size that is not 0 and does not panic.
FullWidthFastPath ==
    /\ (RangeCalled /\ rs.lower <= rs.upper /\ RangeFullWidth) =>
          /\ rs.pc = "sampling" => rs.draws = 0
          /\ rs.pc = "returned" =>
                /\ rs.draws = 1
                /\ AsUnsigned(rs.result) = rs.raw[1]
          /\ rs.pc = "sampling" =>
                \A v \in TypeMin(rs.signed)..TypeMax(rs.signed) :
                   Cardinality({b \in RawBytes :
                                   AsValue(LeValue(<<b>>), rs.signed) = v}) = 1
    /\ (RangeCalled /\ rs.lower <= rs.upper /\ ~RangeFullWidth) =>
          /\ RangeSize(rs.lower, rs.upper) # 0
          /\ rs.pc # "panicked"

\* i8(i8::MIN..) has returned -1 for the raw byte 0xFF.
FullWidthFastPathWitness ==
    /\ rs.pc = "returned" /\ rs.signed /\ rs.draws = 1
    /\ rs.start = Included(TypeMin(TRUE)) /\ rs.end = Unbounded
    /\ rs.raw = <<255>> /\ rs.result = 0 - 1

----------------------------------------------------------------------------
(* The rejection loop of trait_range_int (methods.rs 39-55) at width BITS,  *)
(* taken through every raw value in turn for one range size: which raw      *)
(* values it rejects and how many it maps to each value.                    *)

\* A high word that forgets the carry out of the low halves' product.
multiply_high_carryless(a, b, half) ==
    LET a_low == a % Pow2(half)
        a_high == a \div Pow2(half)
        b_low == b % Pow2(half)
        b_high == b \div Pow2(half)
        carry == (((a_high * b_low) % Pow2(half))
                     + ((a_low * b_high) % Pow2(half))) \div Pow2(half)
    IN  a_high * b_high + ((a_high * b_low) \div Pow2(half))
            + ((a_low * b_high) \div Pow2(half)) + carry

\* traits.rs 1061-1076, multiply_high_u128, on a word of two halves of
\* `half` bits each (64 in the source): the high word of a * b.
multiply_high_u128(a, b, half) ==
    LET a_low == a % Pow2(half)
        a_high == a \div Pow2(half)
        b_low == b % Pow2(half)
        b_high == b \div Pow2(half)
        carry0 == (a_low * b_low) \div Pow2(half)
        a_high_x_b_low == a_high * b_low
        a_low_x_b_high == a_low * b_high
        carry == ((a_high_x_b_low % Pow2(half))
                     + (a_low_x_b_high % Pow2(half)) + carry0) \div Pow2(half)
    IN  a_high * b_high + (a_high_x_b_low \div Pow2(half))
            + (a_low_x_b_high \div Pow2(half)) + carry

\* The range sizes: 1 .. 2^BITS - 1.
UnRanges == 1..(Pow2(BITS) - 1)

\* first: each raw value is taken as the draw of line 41, or as a draw of
\* the loop of lines 46-50.
UnStart(range, first) ==
    [pc |-> "sweeping", range |-> range, first |-> first, next |-> 0,
     tally |-> [v \in 0..(range - 1) |-> 0], rejected |-> 0, outside |-> 0,
     last |-> [raw |-> 0, rejected |-> FALSE, value |-> 0]]

\* The tallies after a raw value was rejected, or gave value (methods.rs 52).
UnCounted(s, raw, rejected, value) ==
    [s EXCEPT !.next = @ + 1,
              !.last = [raw |-> raw, rejected |-> rejected, value |-> value],
              !.rejected = IF rejected THEN @ + 1 ELSE @,
              !.tally = IF ~rejected /\ value \in DOMAIN @
                        THEN [@ EXCEPT ![value] = @ + 1] ELSE @,
              !.outside = IF ~rejected /\ value \notin DOMAIN s.tally
                          THEN @ + 1 ELSE @]

\* methods.rs 41-52 on the next raw value.
UnDraw ==
    /\ un.pc = "sweeping"
    /\ un.next < Pow2(BITS)
    /\ un' = UnCounted(un, un.next,
                       Rejects(<<un.next>>, un.range, BITS, un.first),
                       MulWide(<<un.next>>, un.range, 0).high)
    /\ UNCHANGED <<rs, eb, sd, sh, ch, ws, re, st, iu, mh, at, bo>>

InitUniform ==
    /\ \E range \in UnRanges, first \in BOOLEAN : un = UnStart(range, first)
    /\ rs = Unused /\ eb = Unused /\ sd = Unused /\ sh = Unused
    /\ ch = Unused /\ ws = Unused /\ re = Unused
    /\ st = Unused /\ iu = Unused /\ mh = Unused /\ at = Unused /\ bo = Unused

NextUniform == UnDraw

SpecUniform == InitUniform /\ [][NextUniform]_vars

\* C19: rejection sampling removes the modulo bias.  For a range size r
\* from 1 to 2^W - 1, a raw value v is rejected exactly when
\* (v * r mod 2^W) < (2^W mod r); an accepted v gives high(v * r), which is
\* below r, and the high word as multiply_high_u128 computes it from
\* half words is the same; and once every raw value has been taken, each value below r
\* has been given by floor(2^W / r) raw values.
RejectionUnbiased ==
    /\ un.next > 0 =>
          /\ un.last.rejected <=>
                ((un.last.raw * un.range) % Pow2(BITS))
                    < (Pow2(BITS) % un.range)
          /\ ~un.last.rejected =>
                /\ un.last.value = (un.last.raw * un.range) \div Pow2(BITS)
                /\ un.last.value < un.range
          /\ multiply_high_u128(un.last.raw, un.range, BITS \div 2)
                = (un.last.raw * un.range) \div Pow2(BITS)
          /\ un.outside = 0
    /\ un.next = Pow2(BITS) =>
          /\ \A v \in 0..(un.range - 1) :
                un.tally[v] = Pow2(BITS) \div un.range
          /\ un.rejected = Pow2(BITS) % un.range

\* Every raw byte has been taken through the range size 3 as a first draw:
\* one was rejected and 85 gave each of the 3 values.
RejectionUnbiasedWitness ==
    /\ un.next = Pow2(BITS) /\ un.range = 3 /\ un.first
    /\ un.rejected = 1
    /\ un.tally = [v \in 0..2 |-> 85]

----------------------------------------------------------------------------
(* One EntropyBuffer of either version, followed through the loop of        *)
(* fill_bytes_with_source one test and one fill at a time, with             *)
(* empty_buffer between requests where the version has it.  The source      *)
(* returns SourceBlock(k) on its k-th call.                                 *)

\* The most operations (requests and emptyings) made of the buffer.
MaxCuOps == 3

CuVersions == {"internal", "root"}

\* is_empty, fill and the refill of the buffer's version.
CuIsEmpty(version, b) ==
    IF version = "internal" THEN is_empty(b) ELSE old_is_empty(b)

CuRefilled(version, b, block) ==
    IF version = "internal" THEN update_entropy(b, block)
    ELSE reset_buffer(b, block)

CuFilled(version, b, n) ==
    IF version = "internal" THEN Some(fill(b, n)) ELSE old_fill(b, n)

\* The buffer right after new().  cached counts the bytes fetched from the
\* source that were neither written out nor emptied away; read is the
\* index range [from, to) of the block that the last fill copied.
CuNew(version) ==
    [pc |-> "ready", version |-> version,
     buf |-> IF version = "internal" THEN EbNew ELSE OldNew,
     remaining |-> 0, calls |-> 0, callsBefore |-> 0, requests |-> <<>>,
     requested |-> 0,
     ops |-> 0, emptied |-> FALSE, cached |-> 0, read |-> None,
     written |-> <<>>]

\* fill_bytes_with_source(output, source) is called with output.len() = n.
CuCall(n) ==
    /\ eb.pc = "ready"
    /\ eb.ops < MaxCuOps
    /\ eb' = [eb EXCEPT !.pc = "loop", !.remaining = n, !.ops = @ + 1,
                        !.requests = Append(@, n), !.requested = @ + n,
                        !.callsBefore = eb.calls,
                        !.read = None]
    /\ UNCHANGED <<rs, sd, sh, ch, ws, re, un, st, iu, mh, at, bo>>

\* `while remaining > 0` fails: the call returns.
CuReturn ==
    /\ eb.pc = "loop"
    /\ eb.remaining = 0
    /\ eb' = [eb EXCEPT !.pc = "ready"]
    /\ UNCHANGED <<rs, sd, sh, ch, ws, re, un, st, iu, mh, at, bo>>

\* `if self.is_empty() { ...(source()) }`
CuTest ==
    /\ eb.pc = "loop"
    /\ eb.remaining > 0
    /\ IF CuIsEmpty(eb.version, eb.buf)
       THEN eb' = [eb EXCEPT !.pc = "fill",
                       !.buf = CuRefilled(eb.version, @, SourceBlock(eb.calls)),
                       !.calls = @ + 1,
                       !.cached = total_bytes]
       ELSE eb' = [eb EXCEPT !.pc = "fill"]
    /\ UNCHANGED <<rs, sd, sh, ch, ws, re, un, st, iu, mh, at, bo>>

\* The state after self.fill(output) returned f.
CuAfterFill(s, f) ==
    IF ~IsSome(f) THEN [s EXCEPT !.pc = "panicked"]
    ELSE [s EXCEPT !.pc = "loop",
                   !.buf = Unwrap(f).buf,
                   !.remaining = @ - Unwrap(f).filled,
                   !.cached = @ - Unwrap(f).filled,
                   !.read = Some([from |-> s.buf.cursor,
                                  to |-> s.buf.cursor + Unwrap(f).filled]),
                   !.written = @ \o Unwrap(f).out]

\* `let filled = self.fill(output); output = &mut output[filled..];
\* remaining -= filled;`
CuFill ==
    /\ eb.pc = "fill"
    /\ eb' = CuAfterFill(eb, CuFilled(eb.version, eb.buf, eb.remaining))
    /\ UNCHANGED <<rs, sd, sh, ch, ws, re, un, st, iu, mh, at, bo>>

\* empty_buffer(), which only internal/buffer.rs has.
CuEmpty ==
    /\ eb.pc = "ready"
    /\ eb.version = "internal"
    /\ eb.ops < MaxCuOps
    /\ eb' = [eb EXCEPT !.buf = empty_buffer(@), !.ops = @ + 1,
                        !.emptied = TRUE, !.cached = 0, !.read = None]
    /\ UNCHANGED <<rs, sd, sh, ch, ws, re, un, st, iu, mh, at, bo>>

InitCursor ==
    /\ \E version \in CuVersions : eb = CuNew(version)
    /\ rs = Unused /\ sd = Unused /\ sh = Unused /\ ch = Unused /\ ws = Unused
    /\ re = Unused /\ un = Unused
    /\ st = Unused /\ iu = Unused /\ mh = Unused /\ at = Unused /\ bo = Unused

NextCursor ==
    \/ \E n \in 0..MaxRequest : CuCall(n)
    \/ CuReturn
    \/ CuTest
    \/ CuFill
    \/ CuEmpty

SpecCursor == InitCursor /\ [][NextCursor]_vars

\* C18: entropy buffer cursor invariant.  The buffer of internal/buffer.rs
\* is created with cursor = N, and through new, fill_bytes_with_source and
\* empty_buffer the cursor stays within 0..N; cursor = N exactly when no
\* fetched byte is left to serve, N - cursor bytes are left otherwise, a
\* fill is only made of a buffer that has a byte left, and no fill reads
\* the block at an index of N or more.
CursorInvariant ==
    (eb.pc # "unused" /\ eb.version = "internal") =>
        /\ eb.pc # "panicked"
        /\ eb.ops = 0 => eb.buf.cursor = total_bytes
        /\ 0 <= eb.buf.cursor /\ eb.buf.cursor <= total_bytes
        /\ eb.buf.cursor = total_bytes <=> eb.cached = 0
        /\ eb.cached = total_bytes - eb.buf.cursor
        /\ is_empty(eb.buf) <=> eb.cached = 0
        /\ remaining_buffer(eb.buf) = eb.cached
        /\ eb.pc = "fill" => eb.buf.cursor < total_bytes
        /\ IsSome(eb.read) =>
              /\ Unwrap(eb.read).from < Unwrap(eb.read).to
              /\ Unwrap(eb.read).to <= total_bytes

\* Five bytes are served, the three left are emptied away, and a request
\* of three bytes then fetches a second block and leaves the cursor at 3.
CursorInvariantWitness ==
    /\ eb.pc = "ready" /\ eb.version = "internal"
    /\ eb.requests = <<5, 3>> /\ eb.emptied
    /\ eb.calls = 2 /\ eb.buf.cursor = 3 /\ eb.cached = 5

\* No block is stored, or the stored block is read to its end.
CuExhausted(b) ==
    \/ b.buffer = None
    \/ b.cursor = total_bytes

\* The block stored in the buffer.
CuBlock(version, b) ==
    IF version = "internal" THEN b.buffer ELSE Unwrap(b.buffer)

\* What a step that invokes the source does, apart from where the cursor
\* stood before it.
CuFetch ==
    /\ eb'.calls = eb.calls + 1
    /\ eb.pc = "loop" /\ eb.remaining > 0
    /\ eb.cached = 0
    /\ eb'.buf.cursor = 0
    /\ CuBlock(eb.version, eb'.buf) = SourceBlock(eb.calls)

\* What holds of the calls counted so far: a zero-length request has
\* invoked nothing, and while nothing was emptied away the source was
\* invoked ceil(T / N) times for the T bytes requested and every byte
\* written is the next byte of the fetched blocks.
CuCounted ==
    eb.pc # "unused" =>
        /\ eb.pc # "panicked"
        /\ (eb.requests # <<>> /\ eb.requests[Len(eb.requests)] = 0) =>
              eb.calls = eb.callsBefore
        /\ ~eb.emptied =>
              /\ eb.written = SubSeq(SourceStream(eb.calls), 1, Len(eb.written))
              /\ eb.pc = "ready" =>
                    /\ Len(eb.written) = eb.requested
                    /\ eb.calls = (Len(eb.written) + total_bytes - 1)
                                      \div total_bytes

----------------------------------------------------------------------------
(* Further properties of the generators' steps.                             *)

\* init_state(seed) with its counter, words 12 and 13, at 1.
CountedOnce(seed) ==
    [init_state(seed) EXCEPT ![13] = One32, ![14] = Zero32]

\* C21: producing a block changes the stored ChaCha8 state only in its
\* counter.  After the first generate() the state is init_state(seed) with
\* the counter at 1: constants, key and nonce as before; and the second
\* block of a fill is the block function of that state.
ChaChaCounterOnly ==
    /\ re.pc = "generated" => re.g.state = CountedOnce(re.seed)
    /\ (re.pc = "seeded" /\ re.kind = "chacha" /\ re.ops = 1
            /\ Len(re.out) = 70) =>
          SubSeq(re.out, 65, 70)
              = SubSeq(BlockBytes(calculate_block(DoubleRounds,
                                      CountedOnce(re.seed)), 1), 1, 6)

----------------------------------------------------------------------------
(* One generator, WyRand or ChaCha8, taken through generate, fill and       *)
(* clone one call at a time, with the generator as it was before the call   *)
(* kept next to it.  A fill too long to follow byte by byte is taken by the *)
(* number of its chunks only.                                               *)

\* The most calls made of the generator.
MaxStOps == 3

\* WyRand states: 0, 1, 42, u64::MAX and 0x5F89E29B87429BD1.
StStates ==
    { Zero64, One64, Max64, <<42, 0, 0, 0, 0, 0, 0, 0>>,
      <<209, 155, 66, 135, 155, 226, 137, 95>> }

StFillSizes(kind) ==
    IF kind = "wyrand" THEN {0, 1, 7, 8, 9, 16, 17} ELSE {0, 3, 40, 70}

\* 2^24, 2^24 + 1, 2^24 + 7, 2^25 + 2, 2^27 + 24
StLongSizes == {16777216, 16777217, 16777223, 33554434, 134217752}

StStart(g) ==
    [pc |-> "ready", g |-> g, prev |-> g, op |-> "with_seed", ops |-> 0,
     len |-> 0, calls |-> 0, written |-> 0, out |-> <<>>, clone |-> None]

\* The generator after a call that returned out.
StAfter(s, op, g, len, calls, written, out, clone) ==
    [s EXCEPT !.g = g, !.prev = s.g, !.op = op, !.ops = @ + 1,
              !.len = len, !.calls = calls, !.written = written,
              !.out = out, !.clone = clone]

\* wyrand.rs 38-45: one generate().
StGenerated(s, r) ==
    StAfter(s, "generate", [s.g EXCEPT !.state = r.state], 8, 1, 8,
            r.output, None)

StGenerate ==
    /\ st.pc = "ready" /\ st.ops < MaxStOps /\ st.g.kind = "wyrand"
    /\ st' = StGenerated(st, wyrand_generate(st.g.state))
    /\ UNCHANGED <<rs, eb, sd, sh, ch, ws, re, un, iu, mh, at, bo>>

\* wyrand.rs 58-69 / chacha.rs 73-80: fill(buffer) with buffer.len() = n.
StWyFilled(s, n, r) ==
    StAfter(s, "fill", [s.g EXCEPT !.state = r.state], n, r.calls,
            Len(r.out), r.out, None)

StChaChaFilled(s, n, r) ==
    StAfter(s, "fill", r.g, n, 0, Len(r.out), r.out, None)

StFill(n) ==
    /\ st.pc = "ready" /\ st.ops < MaxStOps
    /\ n \in StFillSizes(st.g.kind)
    /\ IF st.g.kind = "wyrand"
       THEN st' = StWyFilled(st, n, wyrand_fill(st.g.state, n))
       ELSE st' = StChaChaFilled(st, n, chacha_fill(st.g, n, None, Seed40(0)))
    /\ UNCHANGED <<rs, eb, sd, sh, ch, ws, re, un, iu, mh, at, bo>>

\* A count of generate() calls as a u64.
CallsBytes(c) ==
    <<c % 256, (c \div 256) % 256, (c \div 65536) % 256, c \div 16777216,
      0, 0, 0, 0>>

\* wyrand.rs 58-69 on a long buffer: `remaining` chunks are taken, each
\* advancing the state by the increment, and they fill 8 bytes each until
\* the buffer is full.
StLongFilled(s, n, remaining) ==
    StAfter(s, "long_fill",
            [s.g EXCEPT !.state =
                wrapping_add(@, SubSeq(MulBytes(WyIncrement,
                                           CallsBytes(remaining), 0, 0), 1, 8))],
            n, remaining, Min(n, 8 * remaining), <<>>, None)

StFillLong(n) ==
    /\ st.pc = "ready" /\ st.ops < MaxStOps /\ st.g.kind = "wyrand"
    /\ st' = StLongFilled(st, n, fill_chunks(n))
    /\ UNCHANGED <<rs, eb, sd, sh, ch, ws, re, un, iu, mh, at, bo>>

\* wyrand.rs 72-79, chacha.rs 83-90: clone(), f being what self.rand() did.
StCloned(s, f) ==
    StAfter(s, "clone", f.g, Len(f.out), 0, Len(f.out), f.out,
            Some(CloneOf(f).clone))

StClone ==
    /\ st.pc = "ready" /\ st.ops < MaxStOps
    /\ st' = StCloned(st, GenFill(st.g, IF st.g.kind = "wyrand" THEN 8 ELSE 40,
                                  None, Seed40(0)))
    /\ UNCHANGED <<rs, eb, sd, sh, ch, ws, re, un, iu, mh, at, bo>>

InitStep ==
    /\ \/ \E state \in StStates : st = StStart(wyrand_with_seed(state))
       \/ \E seed \in ChaChaSeeds : st = StStart(chacha_with_seed(seed))
    /\ rs = Unused /\ eb = Unused /\ sd = Unused /\ sh = Unused
    /\ ch = Unused /\ ws = Unused /\ re = Unused /\ un = Unused
    /\ iu = Unused /\ mh = Unused /\ at = Unused /\ bo = Unused

NextStep ==
    \/ StGenerate
    \/ \E n \in 0..70 : StFill(n)
    \/ \E n \in StLongSizes : StFillLong(n)
    \/ StClone

SpecStep == InitStep /\ [][NextStep]_vars

\* C22: the WyRand step.  A generate() leaves state' = (state +
\* 0xA0761D6478BD642F) mod 2^64 and returns the low 64 bits of
\* (t >> 64) XOR t as 8 little-endian bytes, t being the 128-bit product
\* state' * (state' XOR 0xE7037ED1A0B428DB); from state 1 the bytes are
\* 44, 237, 248, 225, 149, 22, 239, 205, and from 0x5F89E29B87429BD1, where
\* state' is 0, they are all 0.
WyRandStep ==
    st.op = "generate" =>
        /\ st.g.state = AddBytes(st.prev.state, WyIncrement, 0)
        /\ LET t == MulBytes(st.g.state, XorBytes(st.g.state, WyMix), 0, 0)
           IN  st.out = XorBytes(SubSeq(t, 9, 16), SubSeq(t, 1, 8))
        /\ st.prev.state = One64 =>
              st.out = <<44, 237, 248, 225, 149, 22, 239, 205>>
        /\ st.prev.state = <<209, 155, 66, 135, 155, 226, 137, 95>> =>
              st.g.state = Zero64 /\ st.out = Zero64

\* The first generate() of WyRand::with_seed(1).
WyRandStepWitness ==
    /\ st.op = "generate" /\ st.ops = 1
    /\ st.prev.state = One64
    /\ st.out = <<44, 237, 248, 225, 149, 22, 239, 205>>

\* C23: WyRand fill fills the whole destination.  For a buffer of L bytes
\* fill calls generate ceil(L / 8) times and writes all L bytes, byte i
\* being byte (i mod 8) of chunk floor(i / 8); for L = 0 it calls generate
\* zero times and leaves the state as it was.
WyRandFillWhole ==
    (st.op \in {"fill", "long_fill"} /\ st.g.kind = "wyrand") =>
        /\ st.calls = (st.len + 7) \div 8
        /\ st.written = st.len
        /\ st.g.state = AddBytes(st.prev.state,
                            SubSeq(MulBytes(WyIncrement,
                                       CallsBytes((st.len + 7) \div 8), 0, 0),
                                   1, 8), 0)
        /\ st.op = "fill" =>
              /\ Len(st.out) = st.len
              /\ \A i \in 0..(st.len - 1) :
                    st.out[i + 1] =
                        wyrand_generate(
                            AddBytes(st.prev.state,
                                SubSeq(MulBytes(WyIncrement,
                                           CallsBytes(i \div 8), 0, 0), 1, 8),
                                0)).output[(i % 8) + 1]
        /\ st.len = 0 => st.calls = 0 /\ st.g = st.prev

\* The same with the stored state itself, the u64 or the 16 words, changed
\* by every clone.
CloneAdvancesState ==
    st.op = "clone" =>
        /\ st.g.state # st.prev.state
        /\ Unwrap(st.clone).state # st.prev.state
        /\ st.g.kind = "wyrand" =>
              Unwrap(st.clone) = [kind |-> "wyrand", state |-> st.out]
        /\ st.g.kind = "chacha" =>
              /\ Unwrap(st.clone).state = init_state(st.out)
              /\ Unwrap(st.clone).cache = OldNew

\* C24: cloning never copies the raw state and takes its seed from the
\* original's output.  A WyRand clone advances the original by one
\* generate step and has that step's output as its state; a ChaCha8 clone
\* is init_state of the 40 bytes the original returned, with an empty
\* cache.  The original, state and cache together, differs after the call
\* from what it was before; the 16 state words of a ChaCha8 original stay
\* as they were when it had 40 bytes or more cached, and are those of one
\* generate step otherwise.
CloneConsumesOutput ==
    st.op = "clone" =>
        /\ st.g # st.prev
        /\ (st.g.kind = "chacha" /\ old_remaining_buffer(st.prev.cache) >= 40)
              => st.g.state = st.prev.state
        /\ (st.g.kind = "chacha" /\ old_remaining_buffer(st.prev.cache) < 40)
              => st.g.state = chacha_generate(st.prev, Seed40(0)).g.state
        /\ st.g.kind = "wyrand" =>
              /\ st.g.state = AddBytes(st.prev.state, WyIncrement, 0)
              /\ st.out = wyrand_generate(st.prev.state).output
              /\ Unwrap(st.clone) = [kind |-> "wyrand", state |-> st.out]
        /\ st.g.kind = "chacha" =>
              /\ Len(st.out) = 40
              /\ Unwrap(st.clone).state = init_state(st.out)
              /\ Unwrap(st.clone).cache = OldNew
              /\ old_is_empty(Unwrap(st.clone).cache)
              /\ Unwrap(st.clone).state # st.prev.state
              /\ Unwrap(st.clone).state # st.g.state

\* A ChaCha8 generator with 24 bytes of its block left is cloned: the 40
\* bytes take those 24 and 16 of a new block.
CloneConsumesOutputWitness ==
    /\ st.op = "clone" /\ st.g.kind = "chacha" /\ st.ops = 2
    /\ st.prev.cache.cursor = 40 /\ st.g.cache.cursor = 16
    /\ st.g.state # st.prev.state
    /\ Len(st.out) = 40

----------------------------------------------------------------------------
(* Further properties of weighted_sample: which items it can return, and    *)
(* when it returns at all.                                                  *)

\* What holds of a call that has returned for a list of 2 or more items:
\* the item is the candidate drawn last, and its weight is not 0.0 and
\* gives a rate_int that is not 0.
WsAccepted ==
    (ws.pc = "returned" /\ ws.len >= 2) =>
        /\ ws.calls > 0
        /\ ws.result = Some(ws.list[ws.index + 1])
        /\ ws.weights[ws.index + 1] # Rate(0)
        /\ ws.weights[ws.index + 1].q > 0

\* What a step of a call on 2 or more items does: a candidate of weight 0.0
\* is passed over with no generated value taken for chance, and a return
\* comes with a weight of 1.0 or a generated value below the rate_int of
\* the candidate.
WsAccepting ==
    ws.pc \in {"index", "chance"} =>
        /\ (ws'.pc # "idle" /\ ws'.calls # ws.calls
                /\ ws.weights[ws'.index + 1] = Rate(0)) =>
              /\ ws'.pc = "index"
              /\ ws'.draws = ws.draws + 1
        /\ ws'.pc = "returned" =>
              \/ ws.pc = "index" /\ ws.weights[ws'.index + 1].q >= 4
              \/ /\ ws.pc = "chance" /\ ws'.index = ws.index
                 /\ ws.rate_int = <<0, 0, 0, 0, 0, 0, 0,
                                    ws.weights[ws.index + 1].q * 64>>

\* C25: for a list of 2 or more items weighted_sample never returns an
\* item for which the weight function returns 0.0, whatever the generator
\* returns: chance(0.0) is false with no generated value taken, and an item
\* is returned only after chance accepted the weight of that very item and
\* index.
ZeroWeightNeverReturned == []WsAccepted /\ [][WsAccepting]_vars

\* An item of weight 0.5 has been returned after an item of weight 0.0 was
\* drawn and passed over.
ZeroWeightNeverReturnedWitness ==
    /\ ws.pc = "returned" /\ ws.len = 2 /\ ws.calls = 2
    /\ ws.weights = <<Rate(0), Rate(2)>>
    /\ ws.index = 1 /\ ws.draws = 3

\* weighted_sample on 2 or more items with rates that chance takes, its
\* loop left to run for as long as it does: the count of generated values
\* stops at MaxWsDraws and the count of candidates at MaxWsDraws + 1.
\* 0.0, 2^-65, 0.5 and 1.0.
WsFairRates == {Rate(0), Tiny, Rate(2), Rate(4)}

\* The generated values: those of ShRaws, and for each length and each
\* index below it a value that index(..len) turns into that index, with
\* ceil(256 * i / len) as its top byte.
WsFairRaws ==
    ShRaws \cup
    UNION { { <<1, 0, 0, 0, 0, 0, 0, ((256 * i) + (len - 1)) \div len>> :
                  i \in 0..(len - 1) } : len \in 2..MaxWsLen }

WsCounted(s) == [s EXCEPT !.draws = Min(@ + 1, MaxWsDraws)]

WsCapped(s) == [s EXCEPT !.calls = Min(@, MaxWsDraws + 1)]

\* What index(..len) makes of each generated value (traits.rs 311-325):
\* u64(0..=len - 1), None when the value was rejected.
WsSamples ==
    [len \in 2..MaxWsLen |->
        [raw \in WsFairRaws |-> sample_u64(raw, Zero64, ToBytes8(len - 1))]]

\* traits.rs 623: one generated value for self.index(..len).
WsFairIndex(raw) ==
    /\ ws.pc = "index"
    /\ ws' = WsCapped(WsIndexed(WsCounted(ws), WsSamples[ws.len][raw]))
    /\ UNCHANGED <<rs, eb, sd, sh, ch, re, un, st, iu, mh, at, bo>>

\* traits.rs 372: self.gen_u64() < rate_int
WsFairChance(raw) ==
    /\ ws.pc = "chance"
    /\ ws' = IF LessBytes(raw, ws.rate_int) THEN WsReturn(WsCounted(ws))
             ELSE [WsCounted(ws) EXCEPT !.pc = "index"]
    /\ UNCHANGED <<rs, eb, sd, sh, ch, re, un, st, iu, mh, at, bo>>

NextWeightedFair ==
    \/ \E len \in 2..MaxWsLen : \E weights \in [1..len -> WsFairRates] :
         WsCall("weighted_sample", len, weights)
    \/ \E raw \in WsFairRaws : WsFairIndex(raw)
    \/ \E raw \in WsFairRaws : WsFairChance(raw)
    \/ WsDone

\* A generated value that makes index(..len) return i, and one that is
\* below the rate_int of the candidate.
WsFairIndexTo(i) ==
    \E raw \in WsFairRaws :
        /\ WsFairIndex(raw)
        /\ IsSome(WsSamples[ws.len][raw])
        /\ ws'.index = i

WsFairAccept ==
    \E raw \in WsFairRaws : WsFairChance(raw) /\ ws'.pc = "returned"

\* A fair generator: every index, and a value that chance accepts, is
\* drawn again and again for as long as the call asks.
SpecWeightedFair ==
    /\ InitWeighted /\ [][NextWeightedFair]_vars
    /\ \A i \in 0..(MaxWsLen - 1) : SF_vars(WsFairIndexTo(i))
    /\ SF_vars(WsFairAccept)

\* A call on 2 or more items all of weight 0.0 is in its loop: it has
\* neither returned nor panicked.
WsZeroLoops ==
    (WsCalled /\ ws.len >= 2 /\ \A i \in 1..ws.len : ws.weights[i] = Rate(0))
        => ws.pc = "index"

WsInLoop == ws.pc \in {"index", "chance"} /\ ws.len >= 2

\* C26 as stated: a call with a weight in (0, 1] returns Some under a fair
\* generator, and a call with all weights 0.0 stays in its loop.
WeightedSampleReturnsPositive ==
    /\ []WsZeroLoops
    /\ (WsInLoop /\ \E i \in 1..ws.len : ws.weights[i] # Rate(0))
          ~> (ws.pc = "returned" /\ IsSome(ws.result))

\* C26: weighted_sample on 2 or more items loops for ever only if no
\* candidate can be accepted.  If an item has a weight of 2^-64 or more
\* (here 0.5 or 1.0) and the generator is fair, the call returns
\* Some; if every weight is 0.0 the call stays in its loop: it does not
\* return, panic or give None.
WeightedSampleReturns ==
    /\ []WsZeroLoops
    /\ (WsInLoop /\ \E i \in 1..ws.len : ws.weights[i].q > 0)
          ~> (ws.pc = "returned" /\ IsSome(ws.result))

\* The item of weight 0.5 has been returned from a list whose other item
\* has weight 0.0, after the count of generated values reached its end.
WeightedSampleReturnsWitness ==
    /\ ws.pc = "returned" /\ ws.len = 2
    /\ ws.weights = <<Rate(2), Rate(0)>>
    /\ ws.result = Some(ws.list[1])
    /\ ws.draws = MaxWsDraws /\ ws.calls > MaxWsDraws

----------------------------------------------------------------------------
(* IncreasingUniformIter (internal/uniform.rs) on words of IuBits bits      *)
(* instead of 64, so that every chunk value below the bound can be taken:   *)
(* checked_mul overflows at 2^IuBits, and self.rng.u64(..bound) returns any *)
(* value below bound.  partial_shuffle (traits.rs 837-840) makes the        *)
(* iterator with n = len.saturating_sub(amount), which is at most len.      *)

IuBits == 8
IuMaxLen == 7

\* uniform.rs 100-111 with the word's checked_mul
RECURSIVE inner_w(_, _, _)
inner_w(product, current, min) ==
    IF product * current < Pow2(IuBits)
    THEN inner_w(product * current, current + 1, min)
    ELSE [bound |-> product, count |-> current - min]

\* uniform.rs 96-121
calculate_bound_w(min) == inner_w(min, min + 1, min)

\* A step that leaves the chunk undivided.
next_swap_index_keeps_chunk(it, chunk, next_chunk_remaining) ==
    [result |-> IF next_chunk_remaining = 0 THEN chunk
                ELSE chunk % (it.n + 1),
     it |-> [it EXCEPT !.n = @ + 1, !.chunk = chunk,
                       !.chunk_remaining = next_chunk_remaining]]

\* uniform.rs 49-64: the result and the iterator after it, chunk being
\* self.chunk as line 43 may have set it.
next_swap_index_w(it, chunk, next_chunk_remaining) ==
    IF next_chunk_remaining = 0
    THEN [result |-> chunk,
          it |-> [it EXCEPT !.n = @ + 1, !.chunk = chunk,
                            !.chunk_remaining = next_chunk_remaining]]
    ELSE [result |-> chunk % (it.n + 1),
          it |-> [it EXCEPT !.n = @ + 1, !.chunk = chunk \div (it.n + 1),
                            !.chunk_remaining = next_chunk_remaining]]

\* uniform.rs 18-30, and nothing yielded yet.  m, count, bound and drawn
\* describe the chunk in use: its first divisor, how many indices it
\* holds, its bound and the value drawn; since are the indices taken from
\* it.  With n = 0 the chunk is 0 and holds one index below 1.
IuStart(n, len) ==
    [pc |-> "iterating",
     it |-> [n |-> n, chunk |-> 0,
             chunk_remaining |-> IF n = 0 THEN 1 ELSE 0, len |-> len],
     start |-> n, yielded |-> 0, current |-> 0, swap |-> 0,
     m |-> 1, count |-> 1, bound |-> 1, drawn |-> 0, since |-> <<>>]

\* uniform.rs 72-78: Some((self.n, self.next_swap_index())), r being what
\* next_swap_index did.
IuYielded(s, r) ==
    [s EXCEPT !.it = r.it, !.yielded = @ + 1, !.current = s.it.n,
              !.swap = r.result, !.since = Append(@, r.result)]

\* The first item of a chunk drawn as `chunk` below b.bound.
IuDrawn(s, chunk, b) ==
    IuYielded([s EXCEPT !.m = s.it.n + 1, !.count = b.count,
                        !.bound = b.bound, !.drawn = chunk, !.since = <<>>],
              next_swap_index_w(s.it, chunk, b.count - 1))

\* next() when no chunk has to be drawn: None at the end, or the next
\* index of the chunk in use.
IuNext ==
    /\ iu.pc = "iterating"
    /\ iu.it.len = iu.it.n \/ iu.it.chunk_remaining >= 1
    /\ iu' = IF iu.it.len = iu.it.n THEN [iu EXCEPT !.pc = "done"]
             ELSE IuYielded(iu, next_swap_index_w(iu.it, iu.it.chunk,
                                    iu.it.chunk_remaining - 1))
    /\ UNCHANGED <<rs, eb, sd, sh, ch, ws, re, un, st, mh, at, bo>>

\* next() when the chunk is used up: self.rng.u64(..bound) returns chunk.
IuNextDrawn(chunk) ==
    /\ iu.pc = "iterating"
    /\ iu.it.len # iu.it.n /\ iu.it.chunk_remaining = 0
    /\ chunk < calculate_bound_w(iu.it.n + 1).bound
    /\ iu' = IuDrawn(iu, chunk, calculate_bound_w(iu.it.n + 1))
    /\ UNCHANGED <<rs, eb, sd, sh, ch, ws, re, un, st, mh, at, bo>>

InitIter ==
    /\ \E len \in 0..IuMaxLen : \E n \in 0..len : iu = IuStart(n, len)
    /\ rs = Unused /\ eb = Unused /\ sd = Unused /\ sh = Unused
    /\ ch = Unused /\ ws = Unused /\ re = Unused /\ un = Unused
    /\ st = Unused /\ mh = Unused /\ at = Unused /\ bo = Unused

NextIter ==
    \/ IuNext
    \/ \E chunk \in 0..(Pow2(IuBits) - 1) : IuNextDrawn(chunk)

SpecIter == InitIter /\ [][NextIter]_vars

\* m * (m + 1) * .. * (m + count - 1)
RECURSIVE IuProduct(_, _)
IuProduct(m, count) ==
    IF count = 0 THEN 1 ELSE m * IuProduct(m + 1, count - 1)

\* The chunk that indices came from, by divisors m, m + 1, ..: the first
\* index plus m times the chunk of the others; rest is what is left of the
\* chunk after them.
RECURSIVE IuCompose(_, _, _)
IuCompose(indices, m, rest) ==
    IF indices = <<>> THEN rest
    ELSE Head(indices) + (m * IuCompose(Tail(indices), m + 1, rest))

\* C27: the pairs of IncreasingUniformIter.  Every pair (current_index,
\* swap_index) has 0 <= swap_index <= current_index < len, and
\* current_index takes n, n + 1, .., len - 1 once each in that order.  A
\* chunk is drawn below m (m + 1) .. (m + count - 1), the longest such
\* product that fits the word, and the indices taken from it, the i-th
\* below m + i - 1, give the chunk back when composed: each combination of
\* indices comes from one chunk value.
IncreasingUniformPairs ==
    iu.pc # "unused" =>
        /\ iu.yielded > 0 =>
              /\ 0 <= iu.swap /\ iu.swap <= iu.current
              /\ iu.current < iu.it.len
              /\ iu.current = (iu.start + iu.yielded) - 1
              /\ iu.it.n = iu.current + 1
        /\ iu.pc = "done" =>
              iu.it.n = iu.it.len /\ iu.yielded = iu.it.len - iu.start
        /\ iu.bound = IuProduct(iu.m, iu.count)
        /\ iu.drawn < iu.bound
        /\ iu.m > 1 => iu.bound * (iu.m + iu.count) >= Pow2(IuBits)
        /\ Len(iu.since) <= iu.count
        /\ \A i \in 1..Len(iu.since) : iu.since[i] < (iu.m + i) - 1
        /\ iu.since # <<>> =>
              iu.drawn = IuCompose(iu.since, iu.m,
                                   IF iu.it.chunk_remaining = 0 THEN 0
                                   ELSE iu.it.chunk)

\* From n = 1 on 5 elements one chunk, drawn as 119 below 2 * 3 * 4 * 5,
\* gave the swap indices 1, 2, 3, 4 of the elements 1, 2, 3, 4.
IncreasingUniformPairsWitness ==
    /\ iu.pc = "done" /\ iu.start = 1 /\ iu.it.len = 5
    /\ iu.m = 2 /\ iu.count = 4 /\ iu.bound = 120
    /\ iu.drawn = 119 /\ iu.since = <<1, 2, 3, 4>>
    /\ iu.current = 4 /\ iu.swap = 4

----------------------------------------------------------------------------
(* multiply_high_u128 (traits.rs 1061-1076) on every pair of words of BITS  *)
(* bits, two halves of BITS / 2 bits each where the source has two of 64.   *)

\* Every value the function computes on the way, in the order of the
\* source: the four partial products, the two sums under the second carry
\* and the three sums of the result.  The type of each of them is the
\* whole word.
multiply_high_sums(a, b, half) ==
    LET a_low == a % Pow2(half)
        a_high == a \div Pow2(half)
        b_low == b % Pow2(half)
        b_high == b \div Pow2(half)
        carry0 == (a_low * b_low) \div Pow2(half)
        a_high_x_b_low == a_high * b_low
        a_low_x_b_high == a_low * b_high
        low_sum == (a_high_x_b_low % Pow2(half))
                       + (a_low_x_b_high % Pow2(half))
        carry == (low_sum + carry0) \div Pow2(half)
    IN  << a_low * b_low, a_high_x_b_low, a_low_x_b_high, a_high * b_high,
           low_sum, low_sum + carry0,
           a_high * b_high + (a_high_x_b_low \div Pow2(half)),
           a_high * b_high + (a_high_x_b_low \div Pow2(half))
               + (a_low_x_b_high \div Pow2(half)),
           a_high * b_high + (a_high_x_b_low \div Pow2(half))
               + (a_low_x_b_high \div Pow2(half)) + carry >>

MhWords == 0..(Pow2(BITS) - 1)

\* One call, on a and b.
MhMultiply ==
    /\ mh.pc = "call"
    /\ mh' = [mh EXCEPT !.pc = "returned",
                 !.high = multiply_high_u128(mh.a, mh.b, BITS \div 2),
                 !.sums = multiply_high_sums(mh.a, mh.b, BITS \div 2)]
    /\ UNCHANGED <<rs, eb, sd, sh, ch, ws, re, un, st, iu, at, bo>>

InitMultiply ==
    /\ \E a \in MhWords : \E b \in MhWords :
           mh = [pc |-> "call", a |-> a, b |-> b, high |-> 0, sums |-> <<>>]
    /\ rs = Unused /\ eb = Unused /\ sd = Unused /\ sh = Unused
    /\ ch = Unused /\ ws = Unused /\ re = Unused /\ un = Unused
    /\ st = Unused /\ iu = Unused /\ at = Unused /\ bo = Unused

NextMultiply == MhMultiply

SpecMultiply == InitMultiply /\ [][NextMultiply]_vars

\* C28: multiply_high_u128(a, b) is the high word of the product,
\* floor(a * b / 2^BITS) for words of BITS bits, and every value computed
\* on the way fits the word, the last of them being the result.
MultiplyHighExact ==
    mh.pc = "returned" =>
        /\ mh.high = (mh.a * mh.b) \div Pow2(BITS)
        /\ \A i \in 1..Len(mh.sums) : mh.sums[i] < Pow2(BITS)
        /\ mh.sums[Len(mh.sums)] = (mh.a * mh.b) \div Pow2(BITS)

\* The largest words: every partial product and every carry is at its
\* largest, and the result is 2^BITS - 2.
MultiplyHighExactWitness ==
    /\ mh.pc = "returned"
    /\ mh.a = Pow2(BITS) - 1 /\ mh.b = Pow2(BITS) - 1
    /\ mh.high = Pow2(BITS) - 2
    /\ mh.sums[4] = (Pow2(BITS \div 2) - 1) * (Pow2(BITS \div 2) - 1)

----------------------------------------------------------------------------
(* One AtomicRng, WyRand<AtomicState> (rng.rs 113), shared by threads that  *)
(* each call generate.  State::update (state.rs 32-36) is get, then set:    *)
(* AtomicState (state.rs 104-122) gives the two as a load and a store and   *)
(* leaves update as the trait has it, so the steps of a call are the load,  *)
(* the store and the output, and other threads run between them.            *)

AtThreads == 2
AtMaxCalls == 2

AtSeeds == {Zero64, ToBytes8(1)}

\* state.rs 33, self.get(): thread t loads the state.
AtGet(t) ==
    /\ at.pc = "shared"
    /\ at.thread[t].pc = "idle" /\ at.thread[t].calls < AtMaxCalls
    /\ at' = [at EXCEPT !.thread[t].pc = "loaded",
                        !.thread[t].value = at.state]
    /\ UNCHANGED <<rs, eb, sd, sh, ch, ws, re, un, st, iu, mh, bo>>

\* state.rs 33-34: new_value from what was loaded, and self.set(new_value).
AtSet(t) ==
    /\ at.pc = "shared"
    /\ at.thread[t].pc = "loaded"
    /\ at' = [at EXCEPT
                 !.thread[t].pc = "stored",
                 !.thread[t].new_value =
                     wrapping_add(at.thread[t].value, WyIncrement),
                 !.state = wrapping_add(at.thread[t].value, WyIncrement)]
    /\ UNCHANGED <<rs, eb, sd, sh, ch, ws, re, un, st, iu, mh, bo>>

\* state.rs 35 and wyrand.rs 42-44: the output, from the new_value that
\* update returned.  from keeps the values the outputs were computed from.
AtReturn(t) ==
    /\ at.pc = "shared"
    /\ at.thread[t].pc = "stored"
    /\ at' = [at EXCEPT
                 !.thread[t].pc = "idle",
                 !.thread[t].calls = @ + 1,
                 !.thread[t].output =
                     wyrand_mix(at.thread[t].new_value).output,
                 !.from = Append(@, at.thread[t].new_value),
                 !.completed = @ + 1]
    /\ UNCHANGED <<rs, eb, sd, sh, ch, ws, re, un, st, iu, mh, bo>>

InitAtomic ==
    /\ \E seed \in AtSeeds :
           at = [pc |-> "shared", initial |-> seed, state |-> seed,
                 thread |-> [t \in 1..AtThreads |->
                                [pc |-> "idle", calls |-> 0, value |-> Zero64,
                                 new_value |-> Zero64, output |-> Zero64]],
                 from |-> <<>>, completed |-> 0]
    /\ rs = Unused /\ eb = Unused /\ sd = Unused /\ sh = Unused
    /\ ch = Unused /\ ws = Unused /\ re = Unused /\ un = Unused
    /\ st = Unused /\ iu = Unused /\ mh = Unused /\ bo = Unused

NextAtomic ==
    \E t \in 1..AtThreads : AtGet(t) \/ AtSet(t) \/ AtReturn(t)

SpecAtomic == InitAtomic /\ [][NextAtomic]_vars

\* initial + n * increment mod 2^64
RECURSIVE AtAdvanced(_, _)
AtAdvanced(state, n) ==
    IF n = 0 THEN state
    ELSE AtAdvanced(wrapping_add(state, WyIncrement), n - 1)

\* C29: no lost update.  When no call is under way, the shared state is
\* the initial state advanced by one increment for each completed call,
\* and no two calls computed their output from the same value of the
\* state.
NoLostUpdate ==
    (at.pc = "shared" /\ \A t \in 1..AtThreads : at.thread[t].pc = "idle") =>
        /\ at.state = AtAdvanced(at.initial, at.completed)
        /\ \A i \in 1..Len(at.from) : \A j \in 1..Len(at.from) :
               i # j => at.from[i] # at.from[j]

----------------------------------------------------------------------------
(* The mutable references to a ChaCha8's cache (chacha.rs 10), step by      *)
(* step through fill (chacha.rs 73-80) and the loop of                      *)
(* fill_bytes_with_source (buffer.rs 55-77) that runs under fill's          *)
(* reference, with generate (chacha.rs 37-61) as its source and reseed      *)
(* (chacha.rs 23-34) called by generate or by the generator's user.         *)
(* refs are the references that exist, by the function that made them.  A   *)
(* block is 64 bytes that tell the generate call it came from.              *)

BoMaxOps == 3
BoSizes == {0, 1, 40, 64, 70, 130}

BoBlock(k) == [i \in 1..64 |-> k]

BoNew ==
    [pc |-> "idle", cache |-> OldNew, refs |-> {}, remaining |-> 0,
     generated |-> 0, exhausted |-> FALSE, caller |-> "none",
     overwritten |-> FALSE, ops |-> 0]

\* chacha.rs 77-79: `&mut *self.cache.get()`, and the call of
\* fill_bytes_with_source on a buffer of n bytes (buffer.rs 60-61).
BoFill(n) ==
    /\ bo.pc = "idle" /\ bo.ops < BoMaxOps
    /\ bo' = [bo EXCEPT !.pc = "loop", !.refs = @ \cup {"fill"},
                        !.remaining = n]
    /\ UNCHANGED <<rs, eb, sd, sh, ch, ws, re, un, st, iu, mh, at>>

\* buffer.rs 63-64 and 71-75: the loop ends, and fill's reference with it
\* (chacha.rs 80); or the cache is empty and source() is called; or fill
\* copies what the cache has.
BoTurn ==
    /\ bo.pc = "loop"
    /\ bo' = IF bo.remaining = 0
             THEN [bo EXCEPT !.pc = "idle", !.refs = @ \ {"fill"},
                             !.ops = @ + 1]
             ELSE IF old_is_empty(bo.cache)
             THEN [bo EXCEPT !.pc = "source"]
             ELSE [bo EXCEPT
                      !.cache = Unwrap(old_fill(@, bo.remaining)).buf,
                      !.remaining =
                          @ - Unwrap(old_fill(bo.cache, bo.remaining)).filled]
    /\ UNCHANGED <<rs, eb, sd, sh, ch, ws, re, un, st, iu, mh, at>>

\* chacha.rs 40-58: generate has its block; exhausted says that
\* increment_counter returned None for it, and then reseed is called.
BoGenerate(exhausted) ==
    /\ bo.pc = "source"
    /\ bo' = [bo EXCEPT !.pc = IF exhausted THEN "reseed" ELSE "refill",
                        !.generated = @ + 1, !.exhausted = exhausted,
                        !.caller = IF exhausted THEN "generate" ELSE @]
    /\ UNCHANGED <<rs, eb, sd, sh, ch, ws, re, un, st, iu, mh, at>>

\* ChaChaRng::reseed (chacha_rng.rs 55-57) called while no fill runs.
BoReseedCall ==
    /\ bo.pc = "idle" /\ bo.ops < BoMaxOps
    /\ bo' = [bo EXCEPT !.pc = "reseed", !.caller = "user"]
    /\ UNCHANGED <<rs, eb, sd, sh, ch, ws, re, un, st, iu, mh, at>>

\* chacha.rs 31-32: the state is written and `&mut *self.cache.get()`
\* made.
BoReseed ==
    /\ bo.pc = "reseed"
    /\ bo' = [bo EXCEPT !.pc = "emptying", !.refs = @ \cup {"reseed"}]
    /\ UNCHANGED <<rs, eb, sd, sh, ch, ws, re, un, st, iu, mh, at>>

\* chacha.rs 32-34: empty_buffer() through reseed's reference, which ends
\* with the statement; then back to the caller.  overwritten: the cache
\* was written while another reference to it existed.
BoEmpty ==
    /\ bo.pc = "emptying"
    /\ bo' = [bo EXCEPT
                 !.pc = IF bo.caller = "generate" THEN "refill" ELSE "idle",
                 !.cache = chacha_reseed([cache |-> @, state |-> <<>>],
                                         Seed40(0)).cache,
                 !.overwritten = @ \/ (bo.refs \ {"reseed"}) # {},
                 !.refs = @ \ {"reseed"},
                 !.ops = IF bo.caller = "user" THEN @ + 1 ELSE @,
                 !.caller = "none"]
    /\ UNCHANGED <<rs, eb, sd, sh, ch, ws, re, un, st, iu, mh, at>>

\* buffer.rs 65: reset_buffer(source()) through fill's reference, with the
\* block that generate returned.
BoRefill ==
    /\ bo.pc = "refill"
    /\ bo' = [bo EXCEPT !.pc = "loop",
                        !.cache = reset_buffer(@, BoBlock(bo.generated)),
                        !.overwritten = @ \/ (bo.refs \ {"fill"}) # {}]
    /\ UNCHANGED <<rs, eb, sd, sh, ch, ws, re, un, st, iu, mh, at>>

InitBorrow ==
    /\ bo = BoNew
    /\ rs = Unused /\ eb = Unused /\ sd = Unused /\ sh = Unused
    /\ ch = Unused /\ ws = Unused /\ re = Unused /\ un = Unused
    /\ st = Unused /\ iu = Unused /\ mh = Unused /\ at = Unused

NextBorrow ==
    \/ \E n \in BoSizes : BoFill(n)
    \/ BoTurn
    \/ \E exhausted \in BOOLEAN : BoGenerate(exhausted)
    \/ BoReseedCall
    \/ BoReseed
    \/ BoEmpty
    \/ BoRefill

SpecBorrow == InitBorrow /\ [][NextBorrow]_vars

\* C30: exclusive access to the cache.  Two mutable references to the
\* cache never exist at once, and the cache is not refilled or emptied
\* while another reference to it exists, also
\* when generate, as the source of fill, finds the counter exhausted and
\* calls reseed.
ExclusiveCacheAccess ==
    bo.pc # "unused" =>
        /\ Cardinality(bo.refs) <= 1
        /\ ~bo.overwritten

====
